---------------------------- MODULE Spec2Model ----------------------------
(***************************************************************************)
(* Theme editor of note-tweakcn: the preset catalog, the editor store      *)
(* (zustand), the per-token edit path of the control panel and the theme   *)
(* mode switch, as a state machine.                                        *)
(*                                                                         *)
(* A token set is a function from token keys to string values; a partial   *)
(* token set is such a function on a subset of the keys.  An optional      *)
(* field (themeState.preset) is <<>> when absent and <<value>> otherwise.  *)
(***************************************************************************)
EXTENDS Integers, Sequences, FiniteSets, TLC

(* Number of edits (per-token edits, CSS imports) one behaviour may make.  *)
MaxEdits == 1

(***************************************************************************)
(* F(x) with x evaluated once, before F is applied to it: a const          *)
(* declaration whose value the following statements use.                   *)
(***************************************************************************)
ByValue(F(_), x) == CHOOSE result \in {F(value) : value \in {x}} : TRUE

(***************************************************************************)
(* JavaScript object spread: { ...a, ...b }.                               *)
(***************************************************************************)
Spread(a, b) ==
  [k \in (DOMAIN a) \cup (DOMAIN b) |-> IF k \in DOMAIN b THEN b[k] ELSE a[k]]

(* { ...a, [key]: value } *)
SpreadSet(a, key, value) ==
  [k \in (DOMAIN a) \cup {key} |-> IF k = key THEN value ELSE a[k]]

(* The empty object literal {}. *)
EmptyObject == [k \in {} |-> ""]

(***************************************************************************)
(* config/theme.ts                                                         *)
(***************************************************************************)
COMMON_STYLES ==
  { "font-sans", "font-serif", "font-mono", "radius", "shadow-opacity",
    "shadow-blur", "shadow-spread", "shadow-offset-x", "shadow-offset-y",
    "letter-spacing", "spacing" }

DEFAULT_FONT_SANS ==
  "ui-sans-serif, system-ui, -apple-system, BlinkMacSystemFont, 'Segoe UI', Roboto, 'Helvetica Neue', Arial, 'Noto Sans', sans-serif, 'Apple Color Emoji', 'Segoe UI Emoji', 'Segoe UI Symbol', 'Noto Color Emoji'"

DEFAULT_FONT_SERIF ==
  "ui-serif, Georgia, Cambria, \"Times New Roman\", Times, serif"

DEFAULT_FONT_MONO ==
  "ui-monospace, SFMono-Regular, Menlo, Monaco, Consolas, \"Liberation Mono\", \"Courier New\", monospace"

defaultLightThemeStyles ==
     "background" :> "hsl(0 0% 100%)"
  @@ "foreground" :> "hsl(0 0% 14.5%)"
  @@ "card" :> "hsl(0 0% 100%)"
  @@ "card-foreground" :> "hsl(0 0% 14.5%)"
  @@ "popover" :> "hsl(0 0% 100%)"
  @@ "popover-foreground" :> "hsl(0 0% 14.5%)"
  @@ "primary" :> "hsl(0 0% 20.5%)"
  @@ "primary-foreground" :> "hsl(0 0% 98.5%)"
  @@ "secondary" :> "hsl(0 0% 97%)"
  @@ "secondary-foreground" :> "hsl(0 0% 20.5%)"
  @@ "muted" :> "hsl(0 0% 97%)"
  @@ "muted-foreground" :> "hsl(0 0% 55.6%)"
  @@ "accent" :> "hsl(0 0% 97%)"
  @@ "accent-foreground" :> "hsl(0 0% 20.5%)"
  @@ "destructive" :> "hsl(0 80% 57.7%)"
  @@ "destructive-foreground" :> "hsl(0 0% 100%)"
  @@ "border" :> "hsl(0 0% 92.2%)"
  @@ "input" :> "hsl(0 0% 92.2%)"
  @@ "ring" :> "hsl(0 0% 70.8%)"
  @@ "chart-1" :> "hsl(41 78% 64.6%)"
  @@ "chart-2" :> "hsl(185 68% 60%)"
  @@ "chart-3" :> "hsl(227 65% 39.8%)"
  @@ "chart-4" :> "hsl(84 63% 82.8%)"
  @@ "chart-5" :> "hsl(70 68% 76.9%)"
  @@ "radius" :> "0.625rem"
  @@ "sidebar" :> "hsl(0 0% 98.5%)"
  @@ "sidebar-foreground" :> "hsl(0 0% 14.5%)"
  @@ "sidebar-primary" :> "hsl(0 0% 20.5%)"
  @@ "sidebar-primary-foreground" :> "hsl(0 0% 98.5%)"
  @@ "sidebar-accent" :> "hsl(0 0% 97%)"
  @@ "sidebar-accent-foreground" :> "hsl(0 0% 20.5%)"
  @@ "sidebar-border" :> "hsl(0 0% 92.2%)"
  @@ "sidebar-ring" :> "hsl(0 0% 70.8%)"
  @@ "font-sans" :> DEFAULT_FONT_SANS
  @@ "font-serif" :> DEFAULT_FONT_SERIF
  @@ "font-mono" :> DEFAULT_FONT_MONO
  @@ "shadow-color" :> "hsl(0 0% 0%)"
  @@ "shadow-opacity" :> "0.1"
  @@ "shadow-blur" :> "3px"
  @@ "shadow-spread" :> "0px"
  @@ "shadow-offset-x" :> "0"
  @@ "shadow-offset-y" :> "1px"
  @@ "letter-spacing" :> "0em"
  @@ "spacing" :> "0.25rem"

defaultDarkThemeStyles ==
  Spread(defaultLightThemeStyles,
     "background" :> "hsl(240 10% 3.9%)"
  @@ "foreground" :> "hsl(0 0% 98%)"
  @@ "card" :> "hsl(240 10% 3.9%)"
  @@ "card-foreground" :> "hsl(0 0% 98%)"
  @@ "popover" :> "hsl(240 10% 3.9%)"
  @@ "popover-foreground" :> "hsl(0 0% 98%)"
  @@ "primary" :> "hsl(0 0% 98%)"
  @@ "primary-foreground" :> "hsl(240 5.9% 10%)"
  @@ "secondary" :> "hsl(240 3.7% 15.9%)"
  @@ "secondary-foreground" :> "hsl(0 0% 98%)"
  @@ "muted" :> "hsl(240 3.7% 15.9%)"
  @@ "muted-foreground" :> "hsl(240 5% 64.9%)"
  @@ "accent" :> "hsl(240 3.7% 15.9%)"
  @@ "accent-foreground" :> "hsl(0 0% 98%)"
  @@ "destructive" :> "hsl(0 62.8% 30.6%)"
  @@ "destructive-foreground" :> "hsl(0 85.7% 97.3%)"
  @@ "border" :> "hsl(240 3.7% 15.9%)"
  @@ "input" :> "hsl(240 3.7% 15.9%)"
  @@ "ring" :> "hsl(240 4.9% 83.9%)"
  @@ "chart-1" :> "hsl(220 70% 50%)"
  @@ "chart-2" :> "hsl(160 60% 45%)"
  @@ "chart-3" :> "hsl(30 80% 55%)"
  @@ "chart-4" :> "hsl(280 65% 60%)"
  @@ "chart-5" :> "hsl(340 75% 55%)"
  @@ "radius" :> "0.625rem"
  @@ "sidebar" :> "hsl(240 5.9% 10%)"
  @@ "sidebar-foreground" :> "hsl(240 4.8% 95.9%)"
  @@ "sidebar-primary" :> "hsl(224.3 76.3% 48%)"
  @@ "sidebar-primary-foreground" :> "hsl(0 0% 100%)"
  @@ "sidebar-accent" :> "hsl(240 3.7% 15.9%)"
  @@ "sidebar-accent-foreground" :> "hsl(240 4.8% 95.9%)"
  @@ "sidebar-border" :> "hsl(240 3.7% 15.9%)"
  @@ "sidebar-ring" :> "hsl(240 4.9% 83.9%)"
  @@ "shadow-color" :> "hsl(0 0% 0%)"
  @@ "letter-spacing" :> "0em"
  @@ "spacing" :> "0.25rem")


defaultStyles ==
  [light |-> defaultLightThemeStyles, dark |-> defaultDarkThemeStyles]

(* utils/parse-css-input.ts: Object.keys(defaultThemeState.styles.light),   *)
(* the token keys.                                                         *)
variableNames == DOMAIN defaultStyles.light

(***************************************************************************)
(* utils/theme-presets.ts: the preset catalog                              *)
(***************************************************************************)
preset_modern_minimal ==
  [label |-> "Modern Minimal",
   styles |-> [
    light |->
         "background" :> "#ffffff"
      @@ "foreground" :> "#333333"
      @@ "card" :> "#ffffff"
      @@ "card-foreground" :> "#333333"
      @@ "popover" :> "#ffffff"
      @@ "popover-foreground" :> "#333333"
      @@ "primary" :> "#3b82f6"
      @@ "primary-foreground" :> "#ffffff"
      @@ "secondary" :> "#f3f4f6"
      @@ "secondary-foreground" :> "#4b5563"
      @@ "muted" :> "#f9fafb"
      @@ "muted-foreground" :> "#6b7280"
      @@ "accent" :> "#e0f2fe"
      @@ "accent-foreground" :> "#1e3a8a"
      @@ "destructive" :> "#ef4444"
      @@ "destructive-foreground" :> "#ffffff"
      @@ "border" :> "#e5e7eb"
      @@ "input" :> "#e5e7eb"
      @@ "ring" :> "#3b82f6"
      @@ "chart-1" :> "#3b82f6"
      @@ "chart-2" :> "#2563eb"
      @@ "chart-3" :> "#1d4ed8"
      @@ "chart-4" :> "#1e40af"
      @@ "chart-5" :> "#1e3a8a"
      @@ "radius" :> "0.375rem"
      @@ "sidebar" :> "#f9fafb"
      @@ "sidebar-foreground" :> "#333333"
      @@ "sidebar-primary" :> "#3b82f6"
      @@ "sidebar-primary-foreground" :> "#ffffff"
      @@ "sidebar-accent" :> "#e0f2fe"
      @@ "sidebar-accent-foreground" :> "#1e3a8a"
      @@ "sidebar-border" :> "#e5e7eb"
      @@ "sidebar-ring" :> "#3b82f6"
      @@ "font-sans" :> "Inter, sans-serif"
      @@ "font-serif" :> "Source Serif 4, serif"
      @@ "font-mono" :> "JetBrains Mono, monospace",
    dark |->
         "background" :> "#171717"
      @@ "foreground" :> "#e5e5e5"
      @@ "card" :> "#262626"
      @@ "card-foreground" :> "#e5e5e5"
      @@ "popover" :> "#262626"
      @@ "popover-foreground" :> "#e5e5e5"
      @@ "primary" :> "#3b82f6"
      @@ "primary-foreground" :> "#ffffff"
      @@ "secondary" :> "#262626"
      @@ "secondary-foreground" :> "#e5e5e5"
      @@ "muted" :> "#262626"
      @@ "muted-foreground" :> "#a3a3a3"
      @@ "accent" :> "#1e3a8a"
      @@ "accent-foreground" :> "#bfdbfe"
      @@ "destructive" :> "#ef4444"
      @@ "destructive-foreground" :> "#ffffff"
      @@ "border" :> "#404040"
      @@ "input" :> "#404040"
      @@ "ring" :> "#3b82f6"
      @@ "chart-1" :> "#60a5fa"
      @@ "chart-2" :> "#3b82f6"
      @@ "chart-3" :> "#2563eb"
      @@ "chart-4" :> "#1d4ed8"
      @@ "chart-5" :> "#1e40af"
      @@ "radius" :> "0.375rem"
      @@ "sidebar" :> "#171717"
      @@ "sidebar-foreground" :> "#e5e5e5"
      @@ "sidebar-primary" :> "#3b82f6"
      @@ "sidebar-primary-foreground" :> "#ffffff"
      @@ "sidebar-accent" :> "#1e3a8a"
      @@ "sidebar-accent-foreground" :> "#bfdbfe"
      @@ "sidebar-border" :> "#404040"
      @@ "sidebar-ring" :> "#3b82f6"]]

preset_t3_chat ==
  [label |-> "T3 Chat",
   styles |-> [
    light |->
         "background" :> "#faf5fa"
      @@ "foreground" :> "#501854"
      @@ "card" :> "#faf5fa"
      @@ "card-foreground" :> "#501854"
      @@ "popover" :> "#ffffff"
      @@ "popover-foreground" :> "#501854"
      @@ "primary" :> "#a84370"
      @@ "primary-foreground" :> "#ffffff"
      @@ "secondary" :> "#f1c4e6"
      @@ "secondary-foreground" :> "#77347c"
      @@ "muted" :> "#f6e5f3"
      @@ "muted-foreground" :> "#834588"
      @@ "accent" :> "#f1c4e6"
      @@ "accent-foreground" :> "#77347c"
      @@ "destructive" :> "#ab4347"
      @@ "destructive-foreground" :> "#ffffff"
      @@ "border" :> "#efbdeb"
      @@ "input" :> "#e7c1dc"
      @@ "ring" :> "#db2777"
      @@ "chart-1" :> "#d926a2"
      @@ "chart-2" :> "#6c12b9"
      @@ "chart-3" :> "#274754"
      @@ "chart-4" :> "#e8c468"
      @@ "chart-5" :> "#f4a462"
      @@ "sidebar" :> "#f3e4f6"
      @@ "sidebar-foreground" :> "#ac1668"
      @@ "sidebar-primary" :> "#454554"
      @@ "sidebar-primary-foreground" :> "#faf1f7"
      @@ "sidebar-accent" :> "#f8f8f7"
      @@ "sidebar-accent-foreground" :> "#454554"
      @@ "sidebar-border" :> "#eceae9"
      @@ "sidebar-ring" :> "#db2777"
      @@ "radius" :> "0.5rem",
    dark |->
         "background" :> "#221d27"
      @@ "foreground" :> "#d2c4de"
      @@ "card" :> "#2c2632"
      @@ "card-foreground" :> "#dbc5d2"
      @@ "popover" :> "#100a0e"
      @@ "popover-foreground" :> "#f8f1f5"
      @@ "primary" :> "#a3004c"
      @@ "primary-foreground" :> "#efc0d8"
      @@ "secondary" :> "#362d3d"
      @@ "secondary-foreground" :> "#d4c7e1"
      @@ "muted" :> "#28222d"
      @@ "muted-foreground" :> "#c2b6cf"
      @@ "accent" :> "#463753"
      @@ "accent-foreground" :> "#f8f1f5"
      @@ "destructive" :> "#301015"
      @@ "destructive-foreground" :> "#ffffff"
      @@ "border" :> "#3b3237"
      @@ "input" :> "#3e343c"
      @@ "ring" :> "#db2777"
      @@ "chart-1" :> "#a84370"
      @@ "chart-2" :> "#934dcb"
      @@ "chart-3" :> "#e88c30"
      @@ "chart-4" :> "#af57db"
      @@ "chart-5" :> "#e23670"
      @@ "sidebar" :> "#181117"
      @@ "sidebar-foreground" :> "#e0cad6"
      @@ "sidebar-primary" :> "#1d4ed8"
      @@ "sidebar-primary-foreground" :> "#ffffff"
      @@ "sidebar-accent" :> "#261922"
      @@ "sidebar-accent-foreground" :> "#f4f4f5"
      @@ "sidebar-border" :> "#000000"
      @@ "sidebar-ring" :> "#db2777"]]

preset_bubblegum ==
  [label |-> "Bubblegum",
   styles |-> [
    light |->
         "background" :> "#f6e6ee"
      @@ "foreground" :> "#5b5b5b"
      @@ "card" :> "#fdedc9"
      @@ "card-foreground" :> "#5b5b5b"
      @@ "popover" :> "#ffffff"
      @@ "popover-foreground" :> "#5b5b5b"
      @@ "primary" :> "#d04f99"
      @@ "primary-foreground" :> "#ffffff"
      @@ "secondary" :> "#8acfd1"
      @@ "secondary-foreground" :> "#333333"
      @@ "muted" :> "#b2e1eb"
      @@ "muted-foreground" :> "#7a7a7a"
      @@ "accent" :> "#fbe2a7"
      @@ "accent-foreground" :> "#333333"
      @@ "destructive" :> "#f96f70"
      @@ "destructive-foreground" :> "#ffffff"
      @@ "border" :> "#d04f99"
      @@ "input" :> "#e4e4e4"
      @@ "ring" :> "#e670ab"
      @@ "chart-1" :> "#e670ab"
      @@ "chart-2" :> "#84d2e2"
      @@ "chart-3" :> "#fbe2a7"
      @@ "chart-4" :> "#f3a0ca"
      @@ "chart-5" :> "#d7488e"
      @@ "sidebar" :> "#f8d8ea"
      @@ "sidebar-foreground" :> "#333333"
      @@ "sidebar-primary" :> "#ec4899"
      @@ "sidebar-primary-foreground" :> "#ffffff"
      @@ "sidebar-accent" :> "#f9a8d4"
      @@ "sidebar-accent-foreground" :> "#333333"
      @@ "sidebar-border" :> "#f3e8ff"
      @@ "sidebar-ring" :> "#ec4899"
      @@ "font-sans" :> "Poppins, sans-serif"
      @@ "font-serif" :> "Lora, serif"
      @@ "font-mono" :> "Fira Code, monospace"
      @@ "radius" :> "0.4rem"
      @@ "shadow-color" :> "hsl(325.78 58.18% 56.86% / 0.5)"
      @@ "shadow-opacity" :> "1.0"
      @@ "shadow-blur" :> "0px"
      @@ "shadow-spread" :> "0px"
      @@ "shadow-offset-x" :> "3px"
      @@ "shadow-offset-y" :> "3px",
    dark |->
         "background" :> "#12242e"
      @@ "foreground" :> "#f3e3ea"
      @@ "card" :> "#1c2e38"
      @@ "card-foreground" :> "#f3e3ea"
      @@ "popover" :> "#1c2e38"
      @@ "popover-foreground" :> "#f3e3ea"
      @@ "primary" :> "#fbe2a7"
      @@ "primary-foreground" :> "#12242e"
      @@ "secondary" :> "#e4a2b1"
      @@ "secondary-foreground" :> "#12242e"
      @@ "muted" :> "#24272b"
      @@ "muted-foreground" :> "#e4a2b1"
      @@ "accent" :> "#c67b96"
      @@ "accent-foreground" :> "#f3e3ea"
      @@ "destructive" :> "#e35ea4"
      @@ "destructive-foreground" :> "#12242e"
      @@ "border" :> "#324859"
      @@ "input" :> "#20333d"
      @@ "ring" :> "#50afb6"
      @@ "chart-1" :> "#50afb6"
      @@ "chart-2" :> "#e4a2b1"
      @@ "chart-3" :> "#c67b96"
      @@ "chart-4" :> "#175c6c"
      @@ "chart-5" :> "#24272b"
      @@ "sidebar" :> "#101f28"
      @@ "sidebar-foreground" :> "#f3f4f6"
      @@ "sidebar-primary" :> "#ec4899"
      @@ "sidebar-primary-foreground" :> "#ffffff"
      @@ "sidebar-accent" :> "#f9a8d4"
      @@ "sidebar-accent-foreground" :> "#1f2937"
      @@ "sidebar-border" :> "#374151"
      @@ "sidebar-ring" :> "#ec4899"
      @@ "font-sans" :> "Poppins, sans-serif"
      @@ "font-serif" :> "Lora, serif"
      @@ "font-mono" :> "Fira Code, monospace"
      @@ "shadow-color" :> "#324859"]]

preset_catppuccin ==
  [label |-> "Catppuccin",
   styles |-> [
    light |->
         "background" :> "#eff1f5"
      @@ "foreground" :> "#4c4f69"
      @@ "card" :> "#ffffff"
      @@ "card-foreground" :> "#4c4f69"
      @@ "popover" :> "#ccd0da"
      @@ "popover-foreground" :> "#4c4f69"
      @@ "primary" :> "#8839ef"
      @@ "primary-foreground" :> "#ffffff"
      @@ "secondary" :> "#ccd0da"
      @@ "secondary-foreground" :> "#4c4f69"
      @@ "muted" :> "#dce0e8"
      @@ "muted-foreground" :> "#6c6f85"
      @@ "accent" :> "#04a5e5"
      @@ "accent-foreground" :> "#ffffff"
      @@ "destructive" :> "#d20f39"
      @@ "destructive-foreground" :> "#ffffff"
      @@ "border" :> "#bcc0cc"
      @@ "input" :> "#ccd0da"
      @@ "ring" :> "#8839ef"
      @@ "chart-1" :> "#8839ef"
      @@ "chart-2" :> "#04a5e5"
      @@ "chart-3" :> "#40a02b"
      @@ "chart-4" :> "#fe640b"
      @@ "chart-5" :> "#dc8a78"
      @@ "sidebar" :> "#e6e9ef"
      @@ "sidebar-foreground" :> "#4c4f69"
      @@ "sidebar-primary" :> "#8839ef"
      @@ "sidebar-primary-foreground" :> "#ffffff"
      @@ "sidebar-accent" :> "#04a5e5"
      @@ "sidebar-accent-foreground" :> "#ffffff"
      @@ "sidebar-border" :> "#bcc0cc"
      @@ "sidebar-ring" :> "#8839ef"
      @@ "font-sans" :> "Montserrat, sans-serif"
      @@ "font-serif" :> "Georgia, serif"
      @@ "font-mono" :> "Fira Code, monospace"
      @@ "radius" :> "0.35rem"
      @@ "shadow-color" :> "hsl(240 30% 25%)"
      @@ "shadow-opacity" :> "0.12"
      @@ "shadow-blur" :> "6px"
      @@ "shadow-spread" :> "0px"
      @@ "shadow-offset-x" :> "0px"
      @@ "shadow-offset-y" :> "4px",
    dark |->
         "background" :> "#181825"
      @@ "foreground" :> "#cdd6f4"
      @@ "card" :> "#1e1e2e"
      @@ "card-foreground" :> "#cdd6f4"
      @@ "popover" :> "#45475a"
      @@ "popover-foreground" :> "#cdd6f4"
      @@ "primary" :> "#cba6f7"
      @@ "primary-foreground" :> "#1e1e2e"
      @@ "secondary" :> "#585b70"
      @@ "secondary-foreground" :> "#cdd6f4"
      @@ "muted" :> "#292c3c"
      @@ "muted-foreground" :> "#a6adc8"
      @@ "accent" :> "#89dceb"
      @@ "accent-foreground" :> "#1e1e2e"
      @@ "destructive" :> "#f38ba8"
      @@ "destructive-foreground" :> "#1e1e2e"
      @@ "border" :> "#313244"
      @@ "input" :> "#313244"
      @@ "ring" :> "#cba6f7"
      @@ "chart-1" :> "#cba6f7"
      @@ "chart-2" :> "#89dceb"
      @@ "chart-3" :> "#a6e3a1"
      @@ "chart-4" :> "#fab387"
      @@ "chart-5" :> "#f5e0dc"
      @@ "sidebar" :> "#11111b"
      @@ "sidebar-foreground" :> "#cdd6f4"
      @@ "sidebar-primary" :> "#cba6f7"
      @@ "sidebar-primary-foreground" :> "#1e1e2e"
      @@ "sidebar-accent" :> "#89dceb"
      @@ "sidebar-accent-foreground" :> "#1e1e2e"
      @@ "sidebar-border" :> "#45475a"
      @@ "sidebar-ring" :> "#cba6f7"]]

preset_graphite ==
  [label |-> "Graphite",
   styles |-> [
    light |->
         "background" :> "#f0f0f0"
      @@ "foreground" :> "#333333"
      @@ "card" :> "#f5f5f5"
      @@ "card-foreground" :> "#333333"
      @@ "popover" :> "#f5f5f5"
      @@ "popover-foreground" :> "#333333"
      @@ "primary" :> "#606060"
      @@ "primary-foreground" :> "#ffffff"
      @@ "secondary" :> "#e0e0e0"
      @@ "secondary-foreground" :> "#333333"
      @@ "muted" :> "#d9d9d9"
      @@ "muted-foreground" :> "#666666"
      @@ "accent" :> "#c0c0c0"
      @@ "accent-foreground" :> "#333333"
      @@ "destructive" :> "#cc3333"
      @@ "destructive-foreground" :> "#ffffff"
      @@ "border" :> "#d0d0d0"
      @@ "input" :> "#e0e0e0"
      @@ "ring" :> "#606060"
      @@ "chart-1" :> "#606060"
      @@ "chart-2" :> "#476666"
      @@ "chart-3" :> "#909090"
      @@ "chart-4" :> "#a8a8a8"
      @@ "chart-5" :> "#c0c0c0"
      @@ "sidebar" :> "#eaeaea"
      @@ "sidebar-foreground" :> "#333333"
      @@ "sidebar-primary" :> "#606060"
      @@ "sidebar-primary-foreground" :> "#ffffff"
      @@ "sidebar-accent" :> "#c0c0c0"
      @@ "sidebar-accent-foreground" :> "#333333"
      @@ "sidebar-border" :> "#d0d0d0"
      @@ "sidebar-ring" :> "#606060"
      @@ "font-sans" :> "Montserrat, sans-serif"
      @@ "font-serif" :> "Georgia, serif"
      @@ "font-mono" :> "Fira Code, monospace"
      @@ "radius" :> "0.35rem"
      @@ "shadow-color" :> "hsl(0 0% 20% / 0.1)"
      @@ "shadow-opacity" :> "0.15"
      @@ "shadow-blur" :> "0px"
      @@ "shadow-spread" :> "0px"
      @@ "shadow-offset-x" :> "0px"
      @@ "shadow-offset-y" :> "2px",
    dark |->
         "background" :> "#1a1a1a"
      @@ "foreground" :> "#d9d9d9"
      @@ "card" :> "#202020"
      @@ "card-foreground" :> "#d9d9d9"
      @@ "popover" :> "#202020"
      @@ "popover-foreground" :> "#d9d9d9"
      @@ "primary" :> "#a0a0a0"
      @@ "primary-foreground" :> "#1a1a1a"
      @@ "secondary" :> "#303030"
      @@ "secondary-foreground" :> "#d9d9d9"
      @@ "muted" :> "#2a2a2a"
      @@ "muted-foreground" :> "#808080"
      @@ "accent" :> "#404040"
      @@ "accent-foreground" :> "#d9d9d9"
      @@ "destructive" :> "#e06666"
      @@ "destructive-foreground" :> "#ffffff"
      @@ "border" :> "#353535"
      @@ "input" :> "#303030"
      @@ "ring" :> "#a0a0a0"
      @@ "chart-1" :> "#a0a0a0"
      @@ "chart-2" :> "#7e9ca0"
      @@ "chart-3" :> "#707070"
      @@ "chart-4" :> "#585858"
      @@ "chart-5" :> "#404040"
      @@ "sidebar" :> "#1f1f1f"
      @@ "sidebar-foreground" :> "#d9d9d9"
      @@ "sidebar-primary" :> "#a0a0a0"
      @@ "sidebar-primary-foreground" :> "#1a1a1a"
      @@ "sidebar-accent" :> "#404040"
      @@ "sidebar-accent-foreground" :> "#d9d9d9"
      @@ "sidebar-border" :> "#353535"
      @@ "sidebar-ring" :> "#a0a0a0"
      @@ "font-sans" :> "Inter, sans-serif"
      @@ "font-serif" :> "Georgia, serif"
      @@ "font-mono" :> "Fira Code, monospace"]]

preset_perpetuity ==
  [label |-> "Perpetuity",
   styles |-> [
    light |->
         "background" :> "#e8f0f0"
      @@ "foreground" :> "#0a4a55"
      @@ "card" :> "#f2f7f7"
      @@ "card-foreground" :> "#0a4a55"
      @@ "popover" :> "#f2f7f7"
      @@ "popover-foreground" :> "#0a4a55"
      @@ "primary" :> "#06858e"
      @@ "primary-foreground" :> "#ffffff"
      @@ "secondary" :> "#d9eaea"
      @@ "secondary-foreground" :> "#0a4a55"
      @@ "muted" :> "#e0eaea"
      @@ "muted-foreground" :> "#427a7e"
      @@ "accent" :> "#c9e5e7"
      @@ "accent-foreground" :> "#0a4a55"
      @@ "destructive" :> "#d13838"
      @@ "destructive-foreground" :> "#ffffff"
      @@ "border" :> "#cde0e2"
      @@ "input" :> "#d9eaea"
      @@ "ring" :> "#06858e"
      @@ "chart-1" :> "#06858e"
      @@ "chart-2" :> "#1e9ea6"
      @@ "chart-3" :> "#37b6be"
      @@ "chart-4" :> "#5dc7ce"
      @@ "chart-5" :> "#8ad8dd"
      @@ "sidebar" :> "#daebed"
      @@ "sidebar-foreground" :> "#0a4a55"
      @@ "sidebar-primary" :> "#06858e"
      @@ "sidebar-primary-foreground" :> "#ffffff"
      @@ "sidebar-accent" :> "#c9e5e7"
      @@ "sidebar-accent-foreground" :> "#0a4a55"
      @@ "sidebar-border" :> "#cde0e2"
      @@ "sidebar-ring" :> "#06858e"
      @@ "font-sans" :> "Courier New, monospace"
      @@ "font-serif" :> "Courier New, monospace"
      @@ "font-mono" :> "Courier New, monospace"
      @@ "radius" :> "0.125rem"
      @@ "shadow-color" :> "hsl(185 70% 30% / 0.15)"
      @@ "shadow-opacity" :> "0.15"
      @@ "shadow-blur" :> "2px"
      @@ "shadow-spread" :> "0px"
      @@ "shadow-offset-x" :> "1px"
      @@ "shadow-offset-y" :> "1px",
    dark |->
         "background" :> "#0a1a20"
      @@ "foreground" :> "#4de8e8"
      @@ "card" :> "#0c2025"
      @@ "card-foreground" :> "#4de8e8"
      @@ "popover" :> "#0c2025"
      @@ "popover-foreground" :> "#4de8e8"
      @@ "primary" :> "#4de8e8"
      @@ "primary-foreground" :> "#0a1a20"
      @@ "secondary" :> "#164955"
      @@ "secondary-foreground" :> "#4de8e8"
      @@ "muted" :> "#0f3039"
      @@ "muted-foreground" :> "#36a5a5"
      @@ "accent" :> "#164955"
      @@ "accent-foreground" :> "#4de8e8"
      @@ "destructive" :> "#e83c3c"
      @@ "destructive-foreground" :> "#f2f2f2"
      @@ "border" :> "#164955"
      @@ "input" :> "#164955"
      @@ "ring" :> "#4de8e8"
      @@ "chart-1" :> "#4de8e8"
      @@ "chart-2" :> "#36a5a5"
      @@ "chart-3" :> "#2d8a8a"
      @@ "chart-4" :> "#19595e"
      @@ "chart-5" :> "#0e383c"
      @@ "sidebar" :> "#0a1a20"
      @@ "sidebar-foreground" :> "#4de8e8"
      @@ "sidebar-primary" :> "#4de8e8"
      @@ "sidebar-primary-foreground" :> "#0a1a20"
      @@ "sidebar-accent" :> "#164955"
      @@ "sidebar-accent-foreground" :> "#4de8e8"
      @@ "sidebar-border" :> "#164955"
      @@ "sidebar-ring" :> "#4de8e8"
      @@ "font-sans" :> "Source Code Pro, monospace"
      @@ "font-serif" :> "Source Code Pro, monospace"
      @@ "font-mono" :> "Source Code Pro, monospace"
      @@ "radius" :> "0.125rem"
      @@ "shadow-color" :> "hsl(180 70% 60% / 0.2)"
      @@ "shadow-opacity" :> "0.2"
      @@ "shadow-blur" :> "2px"
      @@ "shadow-spread" :> "0px"
      @@ "shadow-offset-x" :> "1px"
      @@ "shadow-offset-y" :> "1px"]]

preset_kodama_grove ==
  [label |-> "Kodama Grove",
   styles |-> [
    light |->
         "background" :> "#e4d7b0"
      @@ "foreground" :> "#5c4b3e"
      @@ "card" :> "#e7dbbf"
      @@ "card-foreground" :> "#5c4b3e"
      @@ "popover" :> "#f3ead2"
      @@ "popover-foreground" :> "#5c4b3e"
      @@ "primary" :> "#8d9d4f"
      @@ "primary-foreground" :> "#fdfbf6"
      @@ "secondary" :> "#decea0"
      @@ "secondary-foreground" :> "#5c4b3e"
      @@ "muted" :> "#decea0"
      @@ "muted-foreground" :> "#85766a"
      @@ "accent" :> "#dbc894"
      @@ "accent-foreground" :> "#5c4b3e"
      @@ "destructive" :> "#d98b7e"
      @@ "destructive-foreground" :> "#faf8f2"
      @@ "border" :> "#b19681"
      @@ "input" :> "#dbc894"
      @@ "ring" :> "#9db18c"
      @@ "chart-1" :> "#9db18c"
      @@ "chart-2" :> "#8a9f7b"
      @@ "chart-3" :> "#bac9b4"
      @@ "chart-4" :> "#71856a"
      @@ "chart-5" :> "#5e6e58"
      @@ "sidebar" :> "#e2d1a2"
      @@ "sidebar-foreground" :> "#5c4b3e"
      @@ "sidebar-primary" :> "#9db18c"
      @@ "sidebar-primary-foreground" :> "#fdfbf6"
      @@ "sidebar-accent" :> "#eae5d9"
      @@ "sidebar-accent-foreground" :> "#5c4b3e"
      @@ "sidebar-border" :> "#e5e0d4"
      @@ "sidebar-ring" :> "#9db18c"
      @@ "font-sans" :> "Merriweather, serif"
      @@ "font-serif" :> "Source Serif 4, serif"
      @@ "font-mono" :> "JetBrains Mono, monospace"
      @@ "radius" :> "0.425rem"
      @@ "shadow-color" :> "hsl(88 22% 35% / 0.15)"
      @@ "shadow-opacity" :> "0.15"
      @@ "shadow-blur" :> "2px"
      @@ "shadow-spread" :> "0px"
      @@ "shadow-offset-x" :> "3px"
      @@ "shadow-offset-y" :> "3px",
    dark |->
         "background" :> "#3a3529"
      @@ "foreground" :> "#ede4d4"
      @@ "card" :> "#413c33"
      @@ "card-foreground" :> "#ede4d4"
      @@ "popover" :> "#413c33"
      @@ "popover-foreground" :> "#ede4d4"
      @@ "primary" :> "#8a9f7b"
      @@ "primary-foreground" :> "#2a2521"
      @@ "secondary" :> "#5a5345"
      @@ "secondary-foreground" :> "#ede4d4"
      @@ "muted" :> "#4a4439"
      @@ "muted-foreground" :> "#a8a096"
      @@ "accent" :> "#a18f5c"
      @@ "accent-foreground" :> "#2a2521"
      @@ "destructive" :> "#b5766a"
      @@ "destructive-foreground" :> "#f0e9db"
      @@ "border" :> "#5a5345"
      @@ "input" :> "#5a5345"
      @@ "ring" :> "#8a9f7b"
      @@ "chart-1" :> "#8a9f7b"
      @@ "chart-2" :> "#9db18c"
      @@ "chart-3" :> "#71856a"
      @@ "chart-4" :> "#a18f5c"
      @@ "chart-5" :> "#5e6e58"
      @@ "sidebar" :> "#3a3529"
      @@ "sidebar-foreground" :> "#ede4d4"
      @@ "sidebar-primary" :> "#8a9f7b"
      @@ "sidebar-primary-foreground" :> "#2a2521"
      @@ "sidebar-accent" :> "#a18f5c"
      @@ "sidebar-accent-foreground" :> "#2a2521"
      @@ "sidebar-border" :> "#5a5345"
      @@ "sidebar-ring" :> "#8a9f7b"]]

presets ==
     "modern-minimal" :> preset_modern_minimal
  @@ "t3-chat" :> preset_t3_chat
  @@ "bubblegum" :> preset_bubblegum
  @@ "catppuccin" :> preset_catppuccin
  @@ "graphite" :> preset_graphite
  @@ "perpetuity" :> preset_perpetuity
  @@ "kodama-grove" :> preset_kodama_grove

(***************************************************************************)
(* `presets` is a plain object literal, so presets[name] also finds the    *)
(* properties every object inherits from Object.prototype.  All of them    *)
(* are truthy and none has a `styles` property.                            *)
(***************************************************************************)
ObjectPrototypeKeys ==
  { "constructor", "toString", "toLocaleString", "valueOf", "hasOwnProperty",
    "isPrototypeOf", "propertyIsEnumerable", "__proto__" }

(* const preset = presets[name] *)
presetsLookup(name) ==
  IF name \in DOMAIN presets
    THEN [kind |-> "own", value |-> presets[name]]
    ELSE IF name \in ObjectPrototypeKeys
      THEN [kind |-> "inherited", value |-> EmptyObject]
      ELSE [kind |-> "undefined", value |-> EmptyObject]

(* preset.styles.light || {} *)
OrEmpty(styles, mode) ==
  IF mode \in DOMAIN styles THEN styles[mode] ELSE EmptyObject

(* The outcome of a call: a returned value, or a thrown TypeError. *)
Returned(v) == [threw |-> FALSE, value |-> v]
Thrown == [threw |-> TRUE, value |-> EmptyObject]

getPresetThemeStyles_WrongMode(name) ==
  LET preset == presetsLookup(name) IN
  IF name = "default" THEN Returned(defaultStyles)
  ELSE IF preset.kind = "undefined" THEN Returned(defaultStyles)
  ELSE IF "styles" \notin DOMAIN preset.value THEN Thrown
  ELSE Returned(
    [light |-> Spread(defaultStyles.light, OrEmpty(preset.value.styles, "light")),
     dark  |-> Spread(defaultStyles.dark, OrEmpty(preset.value.styles, "light"))])

getPresetThemeStyles(name) ==
  LET defaultTheme == defaultStyles
      preset == presetsLookup(name) IN
  IF name = "default" THEN Returned(defaultTheme)
  ELSE IF preset.kind = "undefined" THEN Returned(defaultTheme)
  \* preset.styles is undefined for an inherited property: reading
  \* preset.styles.light throws
  ELSE IF "styles" \notin DOMAIN preset.value THEN Thrown
  ELSE Returned(
    [light |-> Spread(defaultTheme.light, OrEmpty(preset.value.styles, "light")),
     dark  |-> Spread(defaultTheme.dark, OrEmpty(preset.value.styles, "dark"))])

(***************************************************************************)
(* Text.  A text the code scans character by character (pasted CSS, a      *)
(* colour literal being parsed) is a sequence of one-character strings;    *)
(* Str turns it into the string it spells.                                 *)
(***************************************************************************)
RECURSIVE Str(_)
Str(s) ==
  IF s = <<>> THEN ""
  ELSE IF Len(s) = 1 THEN s[1]
  ELSE Str(SubSeq(s, 1, Len(s) \div 2))
         \o Str(SubSeq(s, (Len(s) \div 2) + 1, Len(s)))

Min(S) == CHOOSE x \in S : \A y \in S : x <= y

(* The first index i >= from with s[i] \in set, or 0 when there is none. *)
FirstIndex(s, set, from) ==
  IF \A i \in from..Len(s) : s[i] \notin set THEN 0
  ELSE CHOOSE i \in from..Len(s) :
         s[i] \in set /\ \A j \in from..(i - 1) : s[j] \notin set

StartsWithAt(s, i, pattern) ==
  /\ i + Len(pattern) - 1 <= Len(s)
  /\ pattern = <<>> \/ s[i] = pattern[1]
  /\ SubSeq(s, i, i + Len(pattern) - 1) = pattern

(* The regular expression class \s, on the white space the inputs use. *)
IsSpace(c) == c \in {" ", "\t", "\n", "\r"}

(* Where a greedy \s* starting at index i stops. *)
SkipSpaces(s, i) ==
  IF \A j \in i..Len(s) : IsSpace(s[j]) THEN Len(s) + 1
  ELSE CHOOSE j \in i..Len(s) :
         ~IsSpace(s[j]) /\ \A k \in i..(j - 1) : IsSpace(s[k])

(* String.prototype.trim *)
trim(s) ==
  LET start == SkipSpaces(s, 1)
      end == CHOOSE i \in start..Len(s) :
               ~IsSpace(s[i]) /\ \A j \in (i + 1)..Len(s) : IsSpace(s[j]) IN
  IF start > Len(s) THEN <<>> ELSE SubSeq(s, start, end)

(* String.prototype.replace(pattern, replacement) with a string pattern:   *)
(* the first occurrence only.                                              *)
replaceFirst(s, pattern, replacement) ==
  LET I == {i \in 1..Len(s) : StartsWithAt(s, i, pattern)} IN
  IF I = {} THEN s
  ELSE SubSeq(s, 1, Min(I) - 1) \o replacement
         \o SubSeq(s, Min(I) + Len(pattern), Len(s))

(***************************************************************************)
(* The characters of the strings that theme states hold (the values of    *)
(* the default and preset token sets, of the edits and of the imports)    *)
(* and of the token and shadow names.                                     *)
(***************************************************************************)
CharsOfNames ==
     "background" :> <<"b", "a", "c", "k", "g", "r", "o", "u", "n", "d">>
  @@ "foreground" :> <<"f", "o", "r", "e", "g", "r", "o", "u", "n", "d">>
  @@ "card" :> <<"c", "a", "r", "d">>
  @@ "card-foreground" :> <<"c", "a", "r", "d", "-", "f", "o", "r", "e",
            "g", "r", "o", "u", "n", "d">>
  @@ "popover" :> <<"p", "o", "p", "o", "v", "e", "r">>
  @@ "popover-foreground" :> <<"p", "o", "p", "o", "v", "e", "r", "-",
            "f", "o", "r", "e", "g", "r", "o", "u", "n", "d">>
  @@ "primary" :> <<"p", "r", "i", "m", "a", "r", "y">>
  @@ "primary-foreground" :> <<"p", "r", "i", "m", "a", "r", "y", "-",
            "f", "o", "r", "e", "g", "r", "o", "u", "n", "d">>
  @@ "secondary" :> <<"s", "e", "c", "o", "n", "d", "a", "r", "y">>
  @@ "secondary-foreground" :> <<"s", "e", "c", "o", "n", "d", "a", "r",
            "y", "-", "f", "o", "r", "e", "g", "r", "o", "u", "n", "d">>
  @@ "muted" :> <<"m", "u", "t", "e", "d">>
  @@ "muted-foreground" :> <<"m", "u", "t", "e", "d", "-", "f", "o", "r",
            "e", "g", "r", "o", "u", "n", "d">>
  @@ "accent" :> <<"a", "c", "c", "e", "n", "t">>
  @@ "accent-foreground" :> <<"a", "c", "c", "e", "n", "t", "-", "f", "o",
            "r", "e", "g", "r", "o", "u", "n", "d">>
  @@ "destructive" :> <<"d", "e", "s", "t", "r", "u", "c", "t", "i", "v",
            "e">>
  @@ "destructive-foreground" :> <<"d", "e", "s", "t", "r", "u", "c", "t",
            "i", "v", "e", "-", "f", "o", "r", "e", "g", "r", "o", "u",
            "n", "d">>
  @@ "border" :> <<"b", "o", "r", "d", "e", "r">>
  @@ "input" :> <<"i", "n", "p", "u", "t">>
  @@ "ring" :> <<"r", "i", "n", "g">>
  @@ "chart-1" :> <<"c", "h", "a", "r", "t", "-", "1">>
  @@ "chart-2" :> <<"c", "h", "a", "r", "t", "-", "2">>
  @@ "chart-3" :> <<"c", "h", "a", "r", "t", "-", "3">>
  @@ "chart-4" :> <<"c", "h", "a", "r", "t", "-", "4">>
  @@ "chart-5" :> <<"c", "h", "a", "r", "t", "-", "5">>
  @@ "radius" :> <<"r", "a", "d", "i", "u", "s">>
  @@ "sidebar" :> <<"s", "i", "d", "e", "b", "a", "r">>
  @@ "sidebar-foreground" :> <<"s", "i", "d", "e", "b", "a", "r", "-",
            "f", "o", "r", "e", "g", "r", "o", "u", "n", "d">>
  @@ "sidebar-primary" :> <<"s", "i", "d", "e", "b", "a", "r", "-", "p",
            "r", "i", "m", "a", "r", "y">>
  @@ "sidebar-primary-foreground" :> <<"s", "i", "d", "e", "b", "a", "r",
            "-", "p", "r", "i", "m", "a", "r", "y", "-", "f", "o", "r",
            "e", "g", "r", "o", "u", "n", "d">>
  @@ "sidebar-accent" :> <<"s", "i", "d", "e", "b", "a", "r", "-", "a",
            "c", "c", "e", "n", "t">>
  @@ "sidebar-accent-foreground" :> <<"s", "i", "d", "e", "b", "a", "r",
            "-", "a", "c", "c", "e", "n", "t", "-", "f", "o", "r", "e",
            "g", "r", "o", "u", "n", "d">>
  @@ "sidebar-border" :> <<"s", "i", "d", "e", "b", "a", "r", "-", "b",
            "o", "r", "d", "e", "r">>
  @@ "sidebar-ring" :> <<"s", "i", "d", "e", "b", "a", "r", "-", "r", "i",
            "n", "g">>
  @@ "font-sans" :> <<"f", "o", "n", "t", "-", "s", "a", "n", "s">>
  @@ "font-serif" :> <<"f", "o", "n", "t", "-", "s", "e", "r", "i", "f">>
  @@ "font-mono" :> <<"f", "o", "n", "t", "-", "m", "o", "n", "o">>
  @@ "shadow-color" :> <<"s", "h", "a", "d", "o", "w", "-", "c", "o", "l",
            "o", "r">>
  @@ "shadow-opacity" :> <<"s", "h", "a", "d", "o", "w", "-", "o", "p",
            "a", "c", "i", "t", "y">>
  @@ "shadow-blur" :> <<"s", "h", "a", "d", "o", "w", "-", "b", "l", "u",
            "r">>
  @@ "shadow-spread" :> <<"s", "h", "a", "d", "o", "w", "-", "s", "p",
            "r", "e", "a", "d">>
  @@ "shadow-offset-x" :> <<"s", "h", "a", "d", "o", "w", "-", "o", "f",
            "f", "s", "e", "t", "-", "x">>
  @@ "shadow-offset-y" :> <<"s", "h", "a", "d", "o", "w", "-", "o", "f",
            "f", "s", "e", "t", "-", "y">>
  @@ "letter-spacing" :> <<"l", "e", "t", "t", "e", "r", "-", "s", "p",
            "a", "c", "i", "n", "g">>
  @@ "spacing" :> <<"s", "p", "a", "c", "i", "n", "g">>
  @@ "shadow-2xs" :> <<"s", "h", "a", "d", "o", "w", "-", "2", "x", "s">>
  @@ "shadow-xs" :> <<"s", "h", "a", "d", "o", "w", "-", "x", "s">>
  @@ "shadow-sm" :> <<"s", "h", "a", "d", "o", "w", "-", "s", "m">>
  @@ "shadow" :> <<"s", "h", "a", "d", "o", "w">>
  @@ "shadow-md" :> <<"s", "h", "a", "d", "o", "w", "-", "m", "d">>
  @@ "shadow-lg" :> <<"s", "h", "a", "d", "o", "w", "-", "l", "g">>
  @@ "shadow-xl" :> <<"s", "h", "a", "d", "o", "w", "-", "x", "l">>
  @@ "shadow-2xl" :> <<"s", "h", "a", "d", "o", "w", "-", "2", "x", "l">>

CharsOfValues1 ==
     DEFAULT_FONT_SANS :> <<"u", "i", "-", "s", "a", "n", "s", "-", "s",
            "e", "r", "i", "f", ",", " ", "s", "y", "s", "t", "e", "m",
            "-", "u", "i", ",", " ", "-", "a", "p", "p", "l", "e", "-",
            "s", "y", "s", "t", "e", "m", ",", " ", "B", "l", "i", "n",
            "k", "M", "a", "c", "S", "y", "s", "t", "e", "m", "F", "o",
            "n", "t", ",", " ", "'", "S", "e", "g", "o", "e", " ", "U",
            "I", "'", ",", " ", "R", "o", "b", "o", "t", "o", ",", " ",
            "'", "H", "e", "l", "v", "e", "t", "i", "c", "a", " ", "N",
            "e", "u", "e", "'", ",", " ", "A", "r", "i", "a", "l", ",",
            " ", "'", "N", "o", "t", "o", " ", "S", "a", "n", "s", "'",
            ",", " ", "s", "a", "n", "s", "-", "s", "e", "r", "i", "f",
            ",", " ", "'", "A", "p", "p", "l", "e", " ", "C", "o", "l",
            "o", "r", " ", "E", "m", "o", "j", "i", "'", ",", " ", "'",
            "S", "e", "g", "o", "e", " ", "U", "I", " ", "E", "m", "o",
            "j", "i", "'", ",", " ", "'", "S", "e", "g", "o", "e", " ",
            "U", "I", " ", "S", "y", "m", "b", "o", "l", "'", ",", " ",
            "'", "N", "o", "t", "o", " ", "C", "o", "l", "o", "r", " ",
            "E", "m", "o", "j", "i", "'">>
  @@ DEFAULT_FONT_SERIF :> <<"u", "i", "-", "s", "e", "r", "i", "f", ",",
            " ", "G", "e", "o", "r", "g", "i", "a", ",", " ", "C", "a",
            "m", "b", "r", "i", "a", ",", " ", "\"", "T", "i", "m", "e",
            "s", " ", "N", "e", "w", " ", "R", "o", "m", "a", "n", "\"",
            ",", " ", "T", "i", "m", "e", "s", ",", " ", "s", "e", "r",
            "i", "f">>
  @@ DEFAULT_FONT_MONO :> <<"u", "i", "-", "m", "o", "n", "o", "s", "p",
            "a", "c", "e", ",", " ", "S", "F", "M", "o", "n", "o", "-",
            "R", "e", "g", "u", "l", "a", "r", ",", " ", "M", "e", "n",
            "l", "o", ",", " ", "M", "o", "n", "a", "c", "o", ",", " ",
            "C", "o", "n", "s", "o", "l", "a", "s", ",", " ", "\"", "L",
            "i", "b", "e", "r", "a", "t", "i", "o", "n", " ", "M", "o",
            "n", "o", "\"", ",", " ", "\"", "C", "o", "u", "r", "i", "e",
            "r", " ", "N", "e", "w", "\"", ",", " ", "m", "o", "n", "o",
            "s", "p", "a", "c", "e">>
  @@ "hsl(0 0% 100%)" :> <<"h", "s", "l", "(", "0", " ", "0", "%", " ",
            "1", "0", "0", "%", ")">>
  @@ "hsl(0 0% 14.5%)" :> <<"h", "s", "l", "(", "0", " ", "0", "%", " ",
            "1", "4", ".", "5", "%", ")">>
  @@ "hsl(0 0% 20.5%)" :> <<"h", "s", "l", "(", "0", " ", "0", "%", " ",
            "2", "0", ".", "5", "%", ")">>
  @@ "hsl(0 0% 98.5%)" :> <<"h", "s", "l", "(", "0", " ", "0", "%", " ",
            "9", "8", ".", "5", "%", ")">>
  @@ "hsl(0 0% 97%)" :> <<"h", "s", "l", "(", "0", " ", "0", "%", " ",
            "9", "7", "%", ")">>
  @@ "hsl(0 0% 55.6%)" :> <<"h", "s", "l", "(", "0", " ", "0", "%", " ",
            "5", "5", ".", "6", "%", ")">>
  @@ "hsl(0 80% 57.7%)" :> <<"h", "s", "l", "(", "0", " ", "8", "0", "%",
            " ", "5", "7", ".", "7", "%", ")">>
  @@ "hsl(0 0% 92.2%)" :> <<"h", "s", "l", "(", "0", " ", "0", "%", " ",
            "9", "2", ".", "2", "%", ")">>
  @@ "hsl(0 0% 70.8%)" :> <<"h", "s", "l", "(", "0", " ", "0", "%", " ",
            "7", "0", ".", "8", "%", ")">>
  @@ "hsl(41 78% 64.6%)" :> <<"h", "s", "l", "(", "4", "1", " ", "7", "8",
            "%", " ", "6", "4", ".", "6", "%", ")">>
  @@ "hsl(185 68% 60%)" :> <<"h", "s", "l", "(", "1", "8", "5", " ", "6",
            "8", "%", " ", "6", "0", "%", ")">>
  @@ "hsl(227 65% 39.8%)" :> <<"h", "s", "l", "(", "2", "2", "7", " ",
            "6", "5", "%", " ", "3", "9", ".", "8", "%", ")">>
  @@ "hsl(84 63% 82.8%)" :> <<"h", "s", "l", "(", "8", "4", " ", "6", "3",
            "%", " ", "8", "2", ".", "8", "%", ")">>
  @@ "hsl(70 68% 76.9%)" :> <<"h", "s", "l", "(", "7", "0", " ", "6", "8",
            "%", " ", "7", "6", ".", "9", "%", ")">>
  @@ "0.625rem" :> <<"0", ".", "6", "2", "5", "r", "e", "m">>
  @@ "hsl(0 0% 0%)" :> <<"h", "s", "l", "(", "0", " ", "0", "%", " ", "0",
            "%", ")">>
  @@ "0.1" :> <<"0", ".", "1">>
  @@ "3px" :> <<"3", "p", "x">>
  @@ "0px" :> <<"0", "p", "x">>
  @@ "0" :> <<"0">>
  @@ "1px" :> <<"1", "p", "x">>
  @@ "0em" :> <<"0", "e", "m">>
  @@ "0.25rem" :> <<"0", ".", "2", "5", "r", "e", "m">>
  @@ "hsl(240 10% 3.9%)" :> <<"h", "s", "l", "(", "2", "4", "0", " ", "1",
            "0", "%", " ", "3", ".", "9", "%", ")">>
  @@ "hsl(0 0% 98%)" :> <<"h", "s", "l", "(", "0", " ", "0", "%", " ",
            "9", "8", "%", ")">>
  @@ "hsl(240 5.9% 10%)" :> <<"h", "s", "l", "(", "2", "4", "0", " ", "5",
            ".", "9", "%", " ", "1", "0", "%", ")">>
  @@ "hsl(240 3.7% 15.9%)" :> <<"h", "s", "l", "(", "2", "4", "0", " ",
            "3", ".", "7", "%", " ", "1", "5", ".", "9", "%", ")">>
  @@ "hsl(240 5% 64.9%)" :> <<"h", "s", "l", "(", "2", "4", "0", " ", "5",
            "%", " ", "6", "4", ".", "9", "%", ")">>
  @@ "hsl(0 62.8% 30.6%)" :> <<"h", "s", "l", "(", "0", " ", "6", "2",
            ".", "8", "%", " ", "3", "0", ".", "6", "%", ")">>
  @@ "hsl(0 85.7% 97.3%)" :> <<"h", "s", "l", "(", "0", " ", "8", "5",
            ".", "7", "%", " ", "9", "7", ".", "3", "%", ")">>
  @@ "hsl(240 4.9% 83.9%)" :> <<"h", "s", "l", "(", "2", "4", "0", " ",
            "4", ".", "9", "%", " ", "8", "3", ".", "9", "%", ")">>
  @@ "hsl(220 70% 50%)" :> <<"h", "s", "l", "(", "2", "2", "0", " ", "7",
            "0", "%", " ", "5", "0", "%", ")">>
  @@ "hsl(160 60% 45%)" :> <<"h", "s", "l", "(", "1", "6", "0", " ", "6",
            "0", "%", " ", "4", "5", "%", ")">>
  @@ "hsl(30 80% 55%)" :> <<"h", "s", "l", "(", "3", "0", " ", "8", "0",
            "%", " ", "5", "5", "%", ")">>
  @@ "hsl(280 65% 60%)" :> <<"h", "s", "l", "(", "2", "8", "0", " ", "6",
            "5", "%", " ", "6", "0", "%", ")">>
  @@ "hsl(340 75% 55%)" :> <<"h", "s", "l", "(", "3", "4", "0", " ", "7",
            "5", "%", " ", "5", "5", "%", ")">>
  @@ "hsl(240 4.8% 95.9%)" :> <<"h", "s", "l", "(", "2", "4", "0", " ",
            "4", ".", "8", "%", " ", "9", "5", ".", "9", "%", ")">>
  @@ "hsl(224.3 76.3% 48%)" :> <<"h", "s", "l", "(", "2", "2", "4", ".",
            "3", " ", "7", "6", ".", "3", "%", " ", "4", "8", "%", ")">>
  @@ "#ffffff" :> <<"#", "f", "f", "f", "f", "f", "f">>
  @@ "#333333" :> <<"#", "3", "3", "3", "3", "3", "3">>
  @@ "#3b82f6" :> <<"#", "3", "b", "8", "2", "f", "6">>
  @@ "#f3f4f6" :> <<"#", "f", "3", "f", "4", "f", "6">>
  @@ "#4b5563" :> <<"#", "4", "b", "5", "5", "6", "3">>
  @@ "#f9fafb" :> <<"#", "f", "9", "f", "a", "f", "b">>
  @@ "#6b7280" :> <<"#", "6", "b", "7", "2", "8", "0">>
  @@ "#e0f2fe" :> <<"#", "e", "0", "f", "2", "f", "e">>
  @@ "#1e3a8a" :> <<"#", "1", "e", "3", "a", "8", "a">>
  @@ "#ef4444" :> <<"#", "e", "f", "4", "4", "4", "4">>
  @@ "#e5e7eb" :> <<"#", "e", "5", "e", "7", "e", "b">>
  @@ "#2563eb" :> <<"#", "2", "5", "6", "3", "e", "b">>
  @@ "#1d4ed8" :> <<"#", "1", "d", "4", "e", "d", "8">>
  @@ "#1e40af" :> <<"#", "1", "e", "4", "0", "a", "f">>
  @@ "0.375rem" :> <<"0", ".", "3", "7", "5", "r", "e", "m">>
  @@ "Inter, sans-serif" :> <<"I", "n", "t", "e", "r", ",", " ", "s", "a",
            "n", "s", "-", "s", "e", "r", "i", "f">>
  @@ "Source Serif 4, serif" :> <<"S", "o", "u", "r", "c", "e", " ", "S",
            "e", "r", "i", "f", " ", "4", ",", " ", "s", "e", "r", "i",
            "f">>
  @@ "JetBrains Mono, monospace" :> <<"J", "e", "t", "B", "r", "a", "i",
            "n", "s", " ", "M", "o", "n", "o", ",", " ", "m", "o", "n",
            "o", "s", "p", "a", "c", "e">>
  @@ "#171717" :> <<"#", "1", "7", "1", "7", "1", "7">>
  @@ "#e5e5e5" :> <<"#", "e", "5", "e", "5", "e", "5">>
  @@ "#262626" :> <<"#", "2", "6", "2", "6", "2", "6">>
  @@ "#a3a3a3" :> <<"#", "a", "3", "a", "3", "a", "3">>
  @@ "#bfdbfe" :> <<"#", "b", "f", "d", "b", "f", "e">>

CharsOfValues2 ==
     "#404040" :> <<"#", "4", "0", "4", "0", "4", "0">>
  @@ "#60a5fa" :> <<"#", "6", "0", "a", "5", "f", "a">>
  @@ "#faf5fa" :> <<"#", "f", "a", "f", "5", "f", "a">>
  @@ "#501854" :> <<"#", "5", "0", "1", "8", "5", "4">>
  @@ "#a84370" :> <<"#", "a", "8", "4", "3", "7", "0">>
  @@ "#f1c4e6" :> <<"#", "f", "1", "c", "4", "e", "6">>
  @@ "#77347c" :> <<"#", "7", "7", "3", "4", "7", "c">>
  @@ "#f6e5f3" :> <<"#", "f", "6", "e", "5", "f", "3">>
  @@ "#834588" :> <<"#", "8", "3", "4", "5", "8", "8">>
  @@ "#ab4347" :> <<"#", "a", "b", "4", "3", "4", "7">>
  @@ "#efbdeb" :> <<"#", "e", "f", "b", "d", "e", "b">>
  @@ "#e7c1dc" :> <<"#", "e", "7", "c", "1", "d", "c">>
  @@ "#db2777" :> <<"#", "d", "b", "2", "7", "7", "7">>
  @@ "#d926a2" :> <<"#", "d", "9", "2", "6", "a", "2">>
  @@ "#6c12b9" :> <<"#", "6", "c", "1", "2", "b", "9">>
  @@ "#274754" :> <<"#", "2", "7", "4", "7", "5", "4">>
  @@ "#e8c468" :> <<"#", "e", "8", "c", "4", "6", "8">>
  @@ "#f4a462" :> <<"#", "f", "4", "a", "4", "6", "2">>
  @@ "#f3e4f6" :> <<"#", "f", "3", "e", "4", "f", "6">>
  @@ "#ac1668" :> <<"#", "a", "c", "1", "6", "6", "8">>
  @@ "#454554" :> <<"#", "4", "5", "4", "5", "5", "4">>
  @@ "#faf1f7" :> <<"#", "f", "a", "f", "1", "f", "7">>
  @@ "#f8f8f7" :> <<"#", "f", "8", "f", "8", "f", "7">>
  @@ "#eceae9" :> <<"#", "e", "c", "e", "a", "e", "9">>
  @@ "0.5rem" :> <<"0", ".", "5", "r", "e", "m">>
  @@ "#221d27" :> <<"#", "2", "2", "1", "d", "2", "7">>
  @@ "#d2c4de" :> <<"#", "d", "2", "c", "4", "d", "e">>
  @@ "#2c2632" :> <<"#", "2", "c", "2", "6", "3", "2">>
  @@ "#dbc5d2" :> <<"#", "d", "b", "c", "5", "d", "2">>
  @@ "#100a0e" :> <<"#", "1", "0", "0", "a", "0", "e">>
  @@ "#f8f1f5" :> <<"#", "f", "8", "f", "1", "f", "5">>
  @@ "#a3004c" :> <<"#", "a", "3", "0", "0", "4", "c">>
  @@ "#efc0d8" :> <<"#", "e", "f", "c", "0", "d", "8">>
  @@ "#362d3d" :> <<"#", "3", "6", "2", "d", "3", "d">>
  @@ "#d4c7e1" :> <<"#", "d", "4", "c", "7", "e", "1">>
  @@ "#28222d" :> <<"#", "2", "8", "2", "2", "2", "d">>
  @@ "#c2b6cf" :> <<"#", "c", "2", "b", "6", "c", "f">>
  @@ "#463753" :> <<"#", "4", "6", "3", "7", "5", "3">>
  @@ "#301015" :> <<"#", "3", "0", "1", "0", "1", "5">>
  @@ "#3b3237" :> <<"#", "3", "b", "3", "2", "3", "7">>
  @@ "#3e343c" :> <<"#", "3", "e", "3", "4", "3", "c">>
  @@ "#934dcb" :> <<"#", "9", "3", "4", "d", "c", "b">>
  @@ "#e88c30" :> <<"#", "e", "8", "8", "c", "3", "0">>
  @@ "#af57db" :> <<"#", "a", "f", "5", "7", "d", "b">>
  @@ "#e23670" :> <<"#", "e", "2", "3", "6", "7", "0">>
  @@ "#181117" :> <<"#", "1", "8", "1", "1", "1", "7">>
  @@ "#e0cad6" :> <<"#", "e", "0", "c", "a", "d", "6">>
  @@ "#261922" :> <<"#", "2", "6", "1", "9", "2", "2">>
  @@ "#f4f4f5" :> <<"#", "f", "4", "f", "4", "f", "5">>
  @@ "#000000" :> <<"#", "0", "0", "0", "0", "0", "0">>
  @@ "#f6e6ee" :> <<"#", "f", "6", "e", "6", "e", "e">>
  @@ "#5b5b5b" :> <<"#", "5", "b", "5", "b", "5", "b">>
  @@ "#fdedc9" :> <<"#", "f", "d", "e", "d", "c", "9">>
  @@ "#d04f99" :> <<"#", "d", "0", "4", "f", "9", "9">>
  @@ "#8acfd1" :> <<"#", "8", "a", "c", "f", "d", "1">>
  @@ "#b2e1eb" :> <<"#", "b", "2", "e", "1", "e", "b">>
  @@ "#7a7a7a" :> <<"#", "7", "a", "7", "a", "7", "a">>
  @@ "#fbe2a7" :> <<"#", "f", "b", "e", "2", "a", "7">>
  @@ "#f96f70" :> <<"#", "f", "9", "6", "f", "7", "0">>
  @@ "#e4e4e4" :> <<"#", "e", "4", "e", "4", "e", "4">>
  @@ "#e670ab" :> <<"#", "e", "6", "7", "0", "a", "b">>
  @@ "#84d2e2" :> <<"#", "8", "4", "d", "2", "e", "2">>
  @@ "#f3a0ca" :> <<"#", "f", "3", "a", "0", "c", "a">>
  @@ "#d7488e" :> <<"#", "d", "7", "4", "8", "8", "e">>

CharsOfValues3 ==
     "#f8d8ea" :> <<"#", "f", "8", "d", "8", "e", "a">>
  @@ "#ec4899" :> <<"#", "e", "c", "4", "8", "9", "9">>
  @@ "#f9a8d4" :> <<"#", "f", "9", "a", "8", "d", "4">>
  @@ "#f3e8ff" :> <<"#", "f", "3", "e", "8", "f", "f">>
  @@ "Poppins, sans-serif" :> <<"P", "o", "p", "p", "i", "n", "s", ",",
            " ", "s", "a", "n", "s", "-", "s", "e", "r", "i", "f">>
  @@ "Lora, serif" :> <<"L", "o", "r", "a", ",", " ", "s", "e", "r", "i",
            "f">>
  @@ "Fira Code, monospace" :> <<"F", "i", "r", "a", " ", "C", "o", "d",
            "e", ",", " ", "m", "o", "n", "o", "s", "p", "a", "c", "e">>
  @@ "0.4rem" :> <<"0", ".", "4", "r", "e", "m">>
  @@ "hsl(325.78 58.18% 56.86% / 0.5)" :> <<"h", "s", "l", "(", "3", "2",
            "5", ".", "7", "8", " ", "5", "8", ".", "1", "8", "%", " ",
            "5", "6", ".", "8", "6", "%", " ", "/", " ", "0", ".", "5",
            ")">>
  @@ "1.0" :> <<"1", ".", "0">>
  @@ "#12242e" :> <<"#", "1", "2", "2", "4", "2", "e">>
  @@ "#f3e3ea" :> <<"#", "f", "3", "e", "3", "e", "a">>
  @@ "#1c2e38" :> <<"#", "1", "c", "2", "e", "3", "8">>
  @@ "#e4a2b1" :> <<"#", "e", "4", "a", "2", "b", "1">>
  @@ "#24272b" :> <<"#", "2", "4", "2", "7", "2", "b">>
  @@ "#c67b96" :> <<"#", "c", "6", "7", "b", "9", "6">>
  @@ "#e35ea4" :> <<"#", "e", "3", "5", "e", "a", "4">>
  @@ "#324859" :> <<"#", "3", "2", "4", "8", "5", "9">>
  @@ "#20333d" :> <<"#", "2", "0", "3", "3", "3", "d">>
  @@ "#50afb6" :> <<"#", "5", "0", "a", "f", "b", "6">>
  @@ "#175c6c" :> <<"#", "1", "7", "5", "c", "6", "c">>
  @@ "#101f28" :> <<"#", "1", "0", "1", "f", "2", "8">>
  @@ "#1f2937" :> <<"#", "1", "f", "2", "9", "3", "7">>
  @@ "#374151" :> <<"#", "3", "7", "4", "1", "5", "1">>
  @@ "#eff1f5" :> <<"#", "e", "f", "f", "1", "f", "5">>
  @@ "#4c4f69" :> <<"#", "4", "c", "4", "f", "6", "9">>
  @@ "#ccd0da" :> <<"#", "c", "c", "d", "0", "d", "a">>
  @@ "#8839ef" :> <<"#", "8", "8", "3", "9", "e", "f">>
  @@ "#dce0e8" :> <<"#", "d", "c", "e", "0", "e", "8">>
  @@ "#6c6f85" :> <<"#", "6", "c", "6", "f", "8", "5">>
  @@ "#04a5e5" :> <<"#", "0", "4", "a", "5", "e", "5">>
  @@ "#d20f39" :> <<"#", "d", "2", "0", "f", "3", "9">>
  @@ "#bcc0cc" :> <<"#", "b", "c", "c", "0", "c", "c">>
  @@ "#40a02b" :> <<"#", "4", "0", "a", "0", "2", "b">>
  @@ "#fe640b" :> <<"#", "f", "e", "6", "4", "0", "b">>
  @@ "#dc8a78" :> <<"#", "d", "c", "8", "a", "7", "8">>
  @@ "#e6e9ef" :> <<"#", "e", "6", "e", "9", "e", "f">>
  @@ "Montserrat, sans-serif" :> <<"M", "o", "n", "t", "s", "e", "r", "r",
            "a", "t", ",", " ", "s", "a", "n", "s", "-", "s", "e", "r",
            "i", "f">>
  @@ "Georgia, serif" :> <<"G", "e", "o", "r", "g", "i", "a", ",", " ",
            "s", "e", "r", "i", "f">>
  @@ "0.35rem" :> <<"0", ".", "3", "5", "r", "e", "m">>
  @@ "hsl(240 30% 25%)" :> <<"h", "s", "l", "(", "2", "4", "0", " ", "3",
            "0", "%", " ", "2", "5", "%", ")">>
  @@ "0.12" :> <<"0", ".", "1", "2">>
  @@ "6px" :> <<"6", "p", "x">>
  @@ "4px" :> <<"4", "p", "x">>
  @@ "#181825" :> <<"#", "1", "8", "1", "8", "2", "5">>
  @@ "#cdd6f4" :> <<"#", "c", "d", "d", "6", "f", "4">>
  @@ "#1e1e2e" :> <<"#", "1", "e", "1", "e", "2", "e">>
  @@ "#45475a" :> <<"#", "4", "5", "4", "7", "5", "a">>
  @@ "#cba6f7" :> <<"#", "c", "b", "a", "6", "f", "7">>
  @@ "#585b70" :> <<"#", "5", "8", "5", "b", "7", "0">>
  @@ "#292c3c" :> <<"#", "2", "9", "2", "c", "3", "c">>
  @@ "#a6adc8" :> <<"#", "a", "6", "a", "d", "c", "8">>
  @@ "#89dceb" :> <<"#", "8", "9", "d", "c", "e", "b">>
  @@ "#f38ba8" :> <<"#", "f", "3", "8", "b", "a", "8">>
  @@ "#313244" :> <<"#", "3", "1", "3", "2", "4", "4">>
  @@ "#a6e3a1" :> <<"#", "a", "6", "e", "3", "a", "1">>
  @@ "#fab387" :> <<"#", "f", "a", "b", "3", "8", "7">>
  @@ "#f5e0dc" :> <<"#", "f", "5", "e", "0", "d", "c">>
  @@ "#11111b" :> <<"#", "1", "1", "1", "1", "1", "b">>
  @@ "#f0f0f0" :> <<"#", "f", "0", "f", "0", "f", "0">>
  @@ "#f5f5f5" :> <<"#", "f", "5", "f", "5", "f", "5">>
  @@ "#606060" :> <<"#", "6", "0", "6", "0", "6", "0">>
  @@ "#e0e0e0" :> <<"#", "e", "0", "e", "0", "e", "0">>
  @@ "#d9d9d9" :> <<"#", "d", "9", "d", "9", "d", "9">>

CharsOfValues4 ==
     "#666666" :> <<"#", "6", "6", "6", "6", "6", "6">>
  @@ "#c0c0c0" :> <<"#", "c", "0", "c", "0", "c", "0">>
  @@ "#cc3333" :> <<"#", "c", "c", "3", "3", "3", "3">>
  @@ "#d0d0d0" :> <<"#", "d", "0", "d", "0", "d", "0">>
  @@ "#476666" :> <<"#", "4", "7", "6", "6", "6", "6">>
  @@ "#909090" :> <<"#", "9", "0", "9", "0", "9", "0">>
  @@ "#a8a8a8" :> <<"#", "a", "8", "a", "8", "a", "8">>
  @@ "#eaeaea" :> <<"#", "e", "a", "e", "a", "e", "a">>
  @@ "hsl(0 0% 20% / 0.1)" :> <<"h", "s", "l", "(", "0", " ", "0", "%",
            " ", "2", "0", "%", " ", "/", " ", "0", ".", "1", ")">>
  @@ "0.15" :> <<"0", ".", "1", "5">>
  @@ "2px" :> <<"2", "p", "x">>
  @@ "#1a1a1a" :> <<"#", "1", "a", "1", "a", "1", "a">>
  @@ "#202020" :> <<"#", "2", "0", "2", "0", "2", "0">>
  @@ "#a0a0a0" :> <<"#", "a", "0", "a", "0", "a", "0">>
  @@ "#303030" :> <<"#", "3", "0", "3", "0", "3", "0">>
  @@ "#2a2a2a" :> <<"#", "2", "a", "2", "a", "2", "a">>
  @@ "#808080" :> <<"#", "8", "0", "8", "0", "8", "0">>
  @@ "#e06666" :> <<"#", "e", "0", "6", "6", "6", "6">>
  @@ "#353535" :> <<"#", "3", "5", "3", "5", "3", "5">>
  @@ "#7e9ca0" :> <<"#", "7", "e", "9", "c", "a", "0">>
  @@ "#707070" :> <<"#", "7", "0", "7", "0", "7", "0">>
  @@ "#585858" :> <<"#", "5", "8", "5", "8", "5", "8">>
  @@ "#1f1f1f" :> <<"#", "1", "f", "1", "f", "1", "f">>
  @@ "#e8f0f0" :> <<"#", "e", "8", "f", "0", "f", "0">>
  @@ "#0a4a55" :> <<"#", "0", "a", "4", "a", "5", "5">>
  @@ "#f2f7f7" :> <<"#", "f", "2", "f", "7", "f", "7">>
  @@ "#06858e" :> <<"#", "0", "6", "8", "5", "8", "e">>
  @@ "#d9eaea" :> <<"#", "d", "9", "e", "a", "e", "a">>
  @@ "#e0eaea" :> <<"#", "e", "0", "e", "a", "e", "a">>
  @@ "#427a7e" :> <<"#", "4", "2", "7", "a", "7", "e">>
  @@ "#c9e5e7" :> <<"#", "c", "9", "e", "5", "e", "7">>
  @@ "#d13838" :> <<"#", "d", "1", "3", "8", "3", "8">>
  @@ "#cde0e2" :> <<"#", "c", "d", "e", "0", "e", "2">>
  @@ "#1e9ea6" :> <<"#", "1", "e", "9", "e", "a", "6">>
  @@ "#37b6be" :> <<"#", "3", "7", "b", "6", "b", "e">>
  @@ "#5dc7ce" :> <<"#", "5", "d", "c", "7", "c", "e">>
  @@ "#8ad8dd" :> <<"#", "8", "a", "d", "8", "d", "d">>
  @@ "#daebed" :> <<"#", "d", "a", "e", "b", "e", "d">>
  @@ "Courier New, monospace" :> <<"C", "o", "u", "r", "i", "e", "r", " ",
            "N", "e", "w", ",", " ", "m", "o", "n", "o", "s", "p", "a",
            "c", "e">>
  @@ "0.125rem" :> <<"0", ".", "1", "2", "5", "r", "e", "m">>
  @@ "hsl(185 70% 30% / 0.15)" :> <<"h", "s", "l", "(", "1", "8", "5",
            " ", "7", "0", "%", " ", "3", "0", "%", " ", "/", " ", "0",
            ".", "1", "5", ")">>
  @@ "#0a1a20" :> <<"#", "0", "a", "1", "a", "2", "0">>
  @@ "#4de8e8" :> <<"#", "4", "d", "e", "8", "e", "8">>
  @@ "#0c2025" :> <<"#", "0", "c", "2", "0", "2", "5">>
  @@ "#164955" :> <<"#", "1", "6", "4", "9", "5", "5">>
  @@ "#0f3039" :> <<"#", "0", "f", "3", "0", "3", "9">>
  @@ "#36a5a5" :> <<"#", "3", "6", "a", "5", "a", "5">>
  @@ "#e83c3c" :> <<"#", "e", "8", "3", "c", "3", "c">>
  @@ "#f2f2f2" :> <<"#", "f", "2", "f", "2", "f", "2">>
  @@ "#2d8a8a" :> <<"#", "2", "d", "8", "a", "8", "a">>
  @@ "#19595e" :> <<"#", "1", "9", "5", "9", "5", "e">>
  @@ "#0e383c" :> <<"#", "0", "e", "3", "8", "3", "c">>
  @@ "Source Code Pro, monospace" :> <<"S", "o", "u", "r", "c", "e", " ",
            "C", "o", "d", "e", " ", "P", "r", "o", ",", " ", "m", "o",
            "n", "o", "s", "p", "a", "c", "e">>
  @@ "hsl(180 70% 60% / 0.2)" :> <<"h", "s", "l", "(", "1", "8", "0", " ",
            "7", "0", "%", " ", "6", "0", "%", " ", "/", " ", "0", ".",
            "2", ")">>
  @@ "0.2" :> <<"0", ".", "2">>
  @@ "#e4d7b0" :> <<"#", "e", "4", "d", "7", "b", "0">>
  @@ "#5c4b3e" :> <<"#", "5", "c", "4", "b", "3", "e">>
  @@ "#e7dbbf" :> <<"#", "e", "7", "d", "b", "b", "f">>
  @@ "#f3ead2" :> <<"#", "f", "3", "e", "a", "d", "2">>
  @@ "#8d9d4f" :> <<"#", "8", "d", "9", "d", "4", "f">>
  @@ "#fdfbf6" :> <<"#", "f", "d", "f", "b", "f", "6">>
  @@ "#decea0" :> <<"#", "d", "e", "c", "e", "a", "0">>
  @@ "#85766a" :> <<"#", "8", "5", "7", "6", "6", "a">>
  @@ "#dbc894" :> <<"#", "d", "b", "c", "8", "9", "4">>

CharsOfValues5 ==
     "#d98b7e" :> <<"#", "d", "9", "8", "b", "7", "e">>
  @@ "#faf8f2" :> <<"#", "f", "a", "f", "8", "f", "2">>
  @@ "#b19681" :> <<"#", "b", "1", "9", "6", "8", "1">>
  @@ "#9db18c" :> <<"#", "9", "d", "b", "1", "8", "c">>
  @@ "#8a9f7b" :> <<"#", "8", "a", "9", "f", "7", "b">>
  @@ "#bac9b4" :> <<"#", "b", "a", "c", "9", "b", "4">>
  @@ "#71856a" :> <<"#", "7", "1", "8", "5", "6", "a">>
  @@ "#5e6e58" :> <<"#", "5", "e", "6", "e", "5", "8">>
  @@ "#e2d1a2" :> <<"#", "e", "2", "d", "1", "a", "2">>
  @@ "#eae5d9" :> <<"#", "e", "a", "e", "5", "d", "9">>
  @@ "#e5e0d4" :> <<"#", "e", "5", "e", "0", "d", "4">>
  @@ "Merriweather, serif" :> <<"M", "e", "r", "r", "i", "w", "e", "a",
            "t", "h", "e", "r", ",", " ", "s", "e", "r", "i", "f">>
  @@ "0.425rem" :> <<"0", ".", "4", "2", "5", "r", "e", "m">>
  @@ "hsl(88 22% 35% / 0.15)" :> <<"h", "s", "l", "(", "8", "8", " ", "2",
            "2", "%", " ", "3", "5", "%", " ", "/", " ", "0", ".", "1",
            "5", ")">>
  @@ "#3a3529" :> <<"#", "3", "a", "3", "5", "2", "9">>
  @@ "#ede4d4" :> <<"#", "e", "d", "e", "4", "d", "4">>
  @@ "#413c33" :> <<"#", "4", "1", "3", "c", "3", "3">>
  @@ "#2a2521" :> <<"#", "2", "a", "2", "5", "2", "1">>
  @@ "#5a5345" :> <<"#", "5", "a", "5", "3", "4", "5">>
  @@ "#4a4439" :> <<"#", "4", "a", "4", "4", "3", "9">>
  @@ "#a8a096" :> <<"#", "a", "8", "a", "0", "9", "6">>
  @@ "#a18f5c" :> <<"#", "a", "1", "8", "f", "5", "c">>
  @@ "#b5766a" :> <<"#", "b", "5", "7", "6", "6", "a">>
  @@ "#f0e9db" :> <<"#", "f", "0", "e", "9", "d", "b">>
  @@ "0.05em" :> <<"0", ".", "0", "5", "e", "m">>
  @@ "0.5" :> <<"0", ".", "5">>
  @@ "#ff0000" :> <<"#", "f", "f", "0", "0", "0", "0">>
  @@ "banana" :> <<"b", "a", "n", "a", "n", "a">>
  @@ "1rem" :> <<"1", "r", "e", "m">>
  @@ "2rem" :> <<"2", "r", "e", "m">>
  @@ "0.3rem" :> <<"0", ".", "3", "r", "e", "m">>
  @@ "0.1em" :> <<"0", ".", "1", "e", "m">>

Chars ==
  CharsOfNames @@ CharsOfValues1 @@ CharsOfValues2 @@ CharsOfValues3 @@ CharsOfValues4 @@ CharsOfValues5

(***************************************************************************)
(* culori, as far as the theme data and the inputs go: parse() of a        *)
(* hexadecimal literal and of hsl(h s% l%) and hsl(h s% l% / a) written    *)
(* with at most two decimals, the conversions between hsl and rgb, and     *)
(* formatHex() and formatRgb().  A text that is no colour parses to        *)
(* nothing.  Numbers are kept in hundredths; the OKLCH conversion is not   *)
(* modelled.                                                               *)
(***************************************************************************)
HexDigits ==
  <<"0", "1", "2", "3", "4", "5", "6", "7", "8", "9",
    "a", "b", "c", "d", "e", "f">>

UpperHexDigits == <<"A", "B", "C", "D", "E", "F">>

Digits == {"0", "1", "2", "3", "4", "5", "6", "7", "8", "9"}

IsHexDigit(c) ==
  \/ \E i \in 1..16 : HexDigits[i] = c
  \/ \E i \in 1..6 : UpperHexDigits[i] = c

HexValue(c) ==
  IF \E i \in 1..16 : HexDigits[i] = c
    THEN (CHOOSE i \in 1..16 : HexDigits[i] = c) - 1
    ELSE (CHOOSE i \in 1..6 : UpperHexDigits[i] = c) + 9

RECURSIVE DecimalValue(_)
DecimalValue(s) ==
  IF s = <<>> THEN 0
  ELSE 10 * DecimalValue(SubSeq(s, 1, Len(s) - 1)) + HexValue(s[Len(s)])

IsWholeNumber(s) == s # <<>> /\ \A i \in 1..Len(s) : s[i] \in Digits

(* The decimal digits of a natural number. *)
RECURSIVE NatChars(_)
NatChars(n) ==
  IF n < 10 THEN <<HexDigits[n + 1]>>
  ELSE NatChars(n \div 10) \o <<HexDigits[(n % 10) + 1]>>

(* An unsigned decimal literal: digits, or digits "." digits with the      *)
(* digits before the point optional.                                       *)
IsDecimal(s) ==
  LET dot == FirstIndex(s, {"."}, 1) IN
  IF dot = 0 THEN IsWholeNumber(s)
  ELSE /\ dot = 1 \/ IsWholeNumber(SubSeq(s, 1, dot - 1))
       /\ IsWholeNumber(SubSeq(s, dot + 1, Len(s)))

(* The value of a decimal literal, in hundredths; literals with more than  *)
(* two decimals are outside the model.                                     *)
Hundredths(s) ==
  LET dot == FirstIndex(s, {"."}, 1)
      whole == IF dot = 0 THEN s ELSE SubSeq(s, 1, dot - 1)
      fraction == IF dot = 0 THEN <<>> ELSE SubSeq(s, dot + 1, Len(s)) IN
  CASE Len(fraction) = 0 -> 100 * DecimalValue(whole)
    [] Len(fraction) = 1 -> 100 * DecimalValue(whole) + 10 * DecimalValue(fraction)
    [] Len(fraction) = 2 -> 100 * DecimalValue(whole) + DecimalValue(fraction)

IsPercentage(s) ==
  Len(s) >= 2 /\ s[Len(s)] = "%" /\ IsDecimal(SubSeq(s, 1, Len(s) - 1))

(* a / b rounded to the nearest integer, halves upwards; a >= 0, b > 0 *)
RoundDiv(a, b) == (2 * a + b) \div (2 * b)

(* Number.prototype.toFixed(2) of a non-negative value given in hundredths *)
toFixed2(v) ==
  NatChars(v \div 100)
    \o <<".", HexDigits[((v % 100) \div 10) + 1], HexDigits[(v % 10) + 1]>>

(* String(x) of a non-negative value with at most two decimals *)
NumberChars(v) ==
  CASE v % 100 = 0 -> NatChars(v \div 100)
    [] v % 100 # 0 /\ v % 10 = 0 ->
         NatChars(v \div 100) \o <<".", HexDigits[((v % 100) \div 10) + 1]>>
    [] OTHER -> toFixed2(v)

(* The space- or comma-separated components between the parentheses. *)
RECURSIVE Components(_)
Components(s) ==
  LET separators == {" ", ","}
      from(text, start) ==
        LET stop == FirstIndex(text, separators, start + 1) IN
        IF start = 0 THEN <<>>
        ELSE IF stop = 0 THEN <<SubSeq(text, start, Len(text))>>
        ELSE <<SubSeq(text, start, stop - 1)>>
               \o Components(SubSeq(text, stop, Len(text)))
      components(text) ==
        ByValue(LAMBDA start : from(text, start),
                LET I == {i \in 1..Len(text) : text[i] \notin separators} IN
                IF I = {} THEN 0 ELSE Min(I)) IN
  ByValue(components, s)

NoColor == [mode |-> "none"]

(* #rgb, #rgba, #rrggbb, #rrggbbaa; the "#" is optional; alpha in          *)
(* hundredths                                                              *)
parseHex(s) ==
  LET digits == IF s # <<>> /\ Head(s) = "#" THEN Tail(s) ELSE s
      v(i) == HexValue(digits[i]) IN
  IF ~(Len(digits) \in {3, 4, 6, 8} /\ \A i \in 1..Len(digits) : IsHexDigit(digits[i]))
    THEN NoColor
  ELSE IF Len(digits) \in {3, 4}
    THEN [mode |-> "rgb", r |-> 17 * v(1), g |-> 17 * v(2), b |-> 17 * v(3),
          alpha |-> IF Len(digits) = 4 THEN RoundDiv(100 * v(4), 15) ELSE 100]
    ELSE [mode |-> "rgb", r |-> 16 * v(1) + v(2), g |-> 16 * v(3) + v(4),
          b |-> 16 * v(5) + v(6),
          alpha |-> IF Len(digits) = 8
                      THEN RoundDiv(100 * (16 * v(7) + v(8)), 255) ELSE 100]

(* (n / 100) * 100 is not n in IEEE-754 doubles for these whole n in       *)
(* 0..100, so a percentage read as n% and multiplied back by 100 is not a  *)
(* whole number.                                                           *)
InexactPercents == {7, 14, 28, 29, 55, 56, 57, 58}

(* hsl(h s% l%) and hsl(h s% l% / a): h in hundredths of a degree, s and l *)
(* in hundredths of a percent, alpha in hundredths; whole is the set of    *)
(* components for which x % 1 === 0 holds of the value formatNumber gets.  *)
parseHsl(s) ==
  LET percent(part) == Hundredths(SubSeq(part, 1, Len(part) - 1))
      wholePercent(v) == v % 100 = 0 /\ (v \div 100) \notin InexactPercents
      parsed(parts) ==
        IF /\ StartsWithAt(s, 1, <<"h", "s", "l", "(">>)
           /\ s[Len(s)] = ")"
           /\ Len(parts) \in {3, 5}
           /\ IsDecimal(parts[1])
           /\ IsPercentage(parts[2])
           /\ IsPercentage(parts[3])
           /\ Len(parts) = 5 => parts[4] = <<"/">> /\ IsDecimal(parts[5])
          THEN [mode |-> "hsl",
                h |-> Hundredths(parts[1]),
                s |-> percent(parts[2]),
                l |-> percent(parts[3]),
                alpha |-> IF Len(parts) = 5 THEN Hundredths(parts[5]) ELSE 100,
                whole |-> (IF Hundredths(parts[1]) % 100 = 0 THEN {"h"}
                           ELSE {})
                            \cup (IF wholePercent(percent(parts[2])) THEN {"s"}
                            ELSE {})
                            \cup (IF wholePercent(percent(parts[3])) THEN {"l"}
                            ELSE {})]
          ELSE NoColor IN
  ByValue(parsed, Components(SubSeq(s, 5, Len(s) - 1)))

(* culori.parse *)
culoriParse(s) ==
  IF parseHex(s) # NoColor THEN parseHex(s) ELSE parseHsl(s)

(* culori's hsl -> rgb followed by the rounding of the channels to 0..255  *)
(* that formatHex and formatRgb do.  m1 = l + s * (l < 0.5 ? l : 1 - l),   *)
(* m2 = m1 - (m1 - l) * 2 * |((h / 60) % 2) - 1|, the third value is       *)
(* 2 * l - m1.  Computed exactly on tenths, the three as numerators over   *)
(* 300000000; components with a second decimal are outside the model.      *)
convertHslToRgb(color) ==
  LET H == (color.h \div 10) % 3600
      S == color.s \div 10
      L == color.l \div 10
      D == S * (IF L < 500 THEN L ELSE 1000 - L)
      T == IF (H % 1200) >= 600 THEN (H % 1200) - 600 ELSE 600 - (H % 1200)
      m1 == 300 * (1000 * L + D)
      m2 == m1 - D * T
      m0 == 300 * (1000 * L - D)
      \* Math.round(255 * (n / 300000000)), without leaving 32 bits
      channel(n) ==
        (510 * (n \div 10000) + ((510 * (n % 10000) + 300000000) \div 10000))
          \div 60000
      sector == H \div 600 IN
  CASE color.h % 10 = 0 /\ color.s % 10 = 0 /\ color.l % 10 = 0 ->
    [mode |-> "rgb",
     r |-> channel(CASE sector \in {0, 5} -> m1 [] sector \in {1, 4} -> m2
                     [] OTHER -> m0),
     g |-> channel(CASE sector \in {1, 2} -> m1 [] sector \in {0, 3} -> m2
                     [] OTHER -> m0),
     b |-> channel(CASE sector \in {3, 4} -> m1 [] sector \in {2, 5} -> m2
                     [] OTHER -> m0),
     alpha |-> color.alpha]

Max3(a, b, c) == CHOOSE x \in {a, b, c} : \A y \in {a, b, c} : y <= x

(* culori works in IEEE-754 doubles on the channels divided by 255.  For   *)
(* these channel triples of the catalogue the named component of the hsl   *)
(* value is whole when computed exactly and not whole as a double (so      *)
(* formatNumber prints it with two decimals) ...                           *)
IeeeNotWhole ==
  {<<243, 244, 246, "h">>, <<249, 250, 251, "s">>, <<224, 242, 254, "h">>,
   <<243, 228, 246, "h">>, <<250, 241, 247, "h">>, <<236, 234, 233, "h">>,
   <<212, 199, 225, "h">>, <<232, 140, 48, "h">>, <<249, 111, 112, "s">>,
   <<243, 232, 255, "s">>, <<243, 227, 234, "s">>, <<228, 162, 177, "s">>,
   <<31, 41, 55, "h">>, <<239, 241, 245, "h">>, <<220, 224, 232, "h">>,
   <<188, 192, 204, "h">>, <<230, 233, 239, "h">>, <<250, 179, 135, "s">>,
   <<204, 51, 51, "s">>, <<228, 215, 176, "h">>, <<92, 75, 62, "h">>,
   <<231, 219, 191, "h">>, <<250, 248, 242, "h">>, <<138, 159, 123, "h">>,
   <<42, 37, 33, "s">>, <<240, 233, 219, "l">>}

(* ... and for these the double lies below an exact half of a hundredth,   *)
(* so toFixed(2) rounds it down.                                           *)
IeeeRoundsDown ==
  {<<168, 160, 150, "s">>}

(* culori's rgb -> hsl on the 0..255 channels, rounded to hundredths.  A   *)
(* component is whole when its exact value is, but for IeeeNotWhole; a     *)
(* grey has no hue, which formatNumber prints like 0.                      *)
convertRgbToHsl(color) ==
  LET r == color.r
      g == color.g
      b == color.b
      M == Max3(r, g, b)
      m == Min({r, g, b})
      d == M - m
      sDen == 255 - (IF M + m >= 255 THEN M + m - 255 ELSE 255 - (M + m))
      hNum == CASE d = 0 -> 0
                [] d # 0 /\ M = r -> 6000 * ((g - b) + (IF g < b THEN 6 * d ELSE 0))
                [] d # 0 /\ M # r /\ M = g -> 6000 * ((b - r) + 2 * d)
                [] OTHER -> 6000 * ((r - g) + 4 * d)
      hDen == IF d = 0 THEN 1 ELSE d
      sNum == IF d = 0 THEN 0 ELSE 10000 * d
      lNum == 10000 * (M + m)
      isWhole(num, den, c) ==
        num % (100 * den) = 0 /\ <<r, g, b, c>> \notin IeeeNotWhole
      rounded(num, den, c) ==
        RoundDiv(num, den) - (IF <<r, g, b, c>> \in IeeeRoundsDown THEN 1 ELSE 0) IN
  [mode |-> "hsl",
   h |-> rounded(hNum, hDen, "h"),
   s |-> rounded(sNum, IF d = 0 THEN 1 ELSE sDen, "s"),
   l |-> rounded(lNum, 510, "l"),
   alpha |-> color.alpha,
   whole |-> {c \in {"h"} : isWhole(hNum, hDen, c)}
               \cup {c \in {"s"} : isWhole(sNum, IF d = 0 THEN 1 ELSE sDen, c)}
               \cup {c \in {"l"} : isWhole(lNum, 510, c)}]

(* culori.converter("hsl") *)
converterHsl(color) ==
  IF color.mode = "hsl" THEN color ELSE convertRgbToHsl(color)

(* culori.converter("rgb"), with the channels rounded for output *)
converterRgb(color) ==
  IF color.mode = "hsl" THEN convertHslToRgb(color) ELSE color

(* Two hex digits, the low one first. *)
Hex2_LowDigitFirst(n) == <<HexDigits[(n % 16) + 1], HexDigits[(n \div 16) + 1]>>

Hex2(n) == <<HexDigits[(n \div 16) + 1], HexDigits[(n % 16) + 1]>>

(* culori.formatHex: the alpha is dropped *)
formatHex(color) ==
  LET hex(rgb) == <<"#">> \o Hex2(rgb.r) \o Hex2(rgb.g) \o Hex2(rgb.b) IN
  ByValue(hex, converterRgb(color))

(* culori.formatRgb *)
formatRgb(color) ==
  LET channels(rgb) == NatChars(rgb.r) \o <<",", " ">> \o NatChars(rgb.g)
                         \o <<",", " ">> \o NatChars(rgb.b)
      text(rgb) ==
        IF rgb.alpha < 100
          THEN <<"r", "g", "b", "a", "(">> \o channels(rgb) \o <<",", " ">>
                 \o NumberChars(rgb.alpha) \o <<")">>
          ELSE <<"r", "g", "b", "(">> \o channels(rgb) \o <<")">> IN
  ByValue(text, converterRgb(color))

(***************************************************************************)
(* utils/color-converter.ts                                                *)
(***************************************************************************)
(* formatNumber, of a value in hundredths; whole: num % 1 === 0 *)
formatNumber(num, whole) ==
  IF num = 0 THEN <<"0">>
  ELSE IF whole THEN NatChars(num \div 100)
  ELSE toFixed2(num)

(* colorFormatter that wraps the triplet in hsl(...) for version 3 too. *)
colorFormatter_WrapsEveryVersion(colorValue, format, tailwindVersion) ==
  LET triplet(hsl) ==
        formatNumber(hsl.h, "h" \in hsl.whole) \o <<" ">>
          \o formatNumber(hsl.s, "s" \in hsl.whole) \o <<"%", " ">>
          \o formatNumber(hsl.l, "l" \in hsl.whole) \o <<"%">>
      formatted(color) ==
        IF color = NoColor THEN colorValue
        ELSE CASE format = "hsl" ->
                    <<"h", "s", "l", "(">>
                      \o ByValue(triplet, converterHsl(color)) \o <<")">>
               [] format = "rgb" -> formatRgb(color)
               [] format = "hex" -> formatHex(color)
               [] format \notin {"hsl", "rgb", "hex", "oklch"} -> colorValue IN
  ByValue(formatted, culoriParse(colorValue))

(* colorFormatter whose catch returns the empty string, not colorValue. *)
colorFormatter_EmptyOnFailure(colorValue, format, tailwindVersion) ==
  LET triplet(hsl) ==
        formatNumber(hsl.h, "h" \in hsl.whole) \o <<" ">>
          \o formatNumber(hsl.s, "s" \in hsl.whole) \o <<"%", " ">>
          \o formatNumber(hsl.l, "l" \in hsl.whole) \o <<"%">>
      formatted(color) ==
        IF color = NoColor THEN <<>>
        ELSE CASE format = "hsl" ->
                    IF tailwindVersion = "4"
                      THEN <<"h", "s", "l", "(">>
                             \o ByValue(triplet, converterHsl(color)) \o <<")">>
                      ELSE ByValue(triplet, converterHsl(color))
               [] format = "rgb" -> formatRgb(color)
               [] format = "hex" -> formatHex(color)
               [] format \notin {"hsl", "rgb", "hex", "oklch"} -> colorValue IN
  ByValue(formatted, culoriParse(colorValue))

(* colorFormatter(colorValue, format, tailwindVersion), on the characters  *)
(* of colorValue.  A text culori cannot parse throws inside the try and    *)
(* comes back unchanged.                                                   *)
colorFormatter(colorValue, format, tailwindVersion) ==
  LET triplet(hsl) ==
        formatNumber(hsl.h, "h" \in hsl.whole) \o <<" ">>
          \o formatNumber(hsl.s, "s" \in hsl.whole) \o <<"%", " ">>
          \o formatNumber(hsl.l, "l" \in hsl.whole) \o <<"%">>
      formatted(color) ==
        IF color = NoColor THEN colorValue
        ELSE CASE format = "hsl" ->
                    IF tailwindVersion = "4"
                      THEN <<"h", "s", "l", "(">>
                             \o ByValue(triplet, converterHsl(color)) \o <<")">>
                      ELSE ByValue(triplet, converterHsl(color))
               [] format = "rgb" -> formatRgb(color)
               [] format = "hex" -> formatHex(color)
               [] format \notin {"hsl", "rgb", "hex", "oklch"} -> colorValue IN
  ByValue(formatted, culoriParse(colorValue))

(* colorFormatter(colorValue, "hex"), as a string *)
colorFormatterHex(colorValue) == Str(colorFormatter(colorValue, "hex", "3"))

(***************************************************************************)
(* utils/shadows.ts                                                        *)
(***************************************************************************)
(* parseFloat of a decimal literal with an optional sign, in hundredths *)
parseFloat(s) ==
  CASE IsDecimal(s) -> Hundredths(s)
    [] s # <<>> /\ Head(s) = "-" /\ IsDecimal(Tail(s)) -> 0 - Hundredths(Tail(s))

(* String(x) of a value with at most two decimals *)
SignedNumberChars(v) ==
  IF v < 0 THEN <<"-">> \o NumberChars(0 - v) ELSE NumberChars(v)

(* For these opacities (in hundredths) and multipliers (in tenths) the     *)
(* IEEE-754 product lies below an exact half of a hundredth, so toFixed(2) *)
(* rounds it down.                                                         *)
IeeeProductRoundsDown ==
  {<<3, 5>>, <<9, 5>>, <<15, 5>>, <<21, 5>>, <<29, 5>>, <<31, 5>>,
   <<35, 5>>, <<37, 5>>, <<41, 5>>, <<43, 5>>, <<47, 5>>, <<49, 5>>,
   <<57, 5>>, <<59, 5>>, <<61, 5>>, <<69, 5>>, <<71, 5>>, <<73, 5>>,
   <<83, 5>>, <<85, 5>>, <<87, 5>>, <<95, 5>>, <<97, 5>>, <<99, 5>>,
   <<3, 25>>, <<9, 25>>, <<19, 25>>, <<29, 25>>, <<41, 25>>, <<43, 25>>,
   <<47, 25>>, <<51, 25>>, <<57, 25>>, <<59, 25>>, <<61, 25>>, <<63, 25>>,
   <<69, 25>>, <<71, 25>>, <<73, 25>>, <<83, 25>>, <<87, 25>>, <<91, 25>>,
   <<97, 25>>}

(* color() that leaves the multiplier out. *)
opacityTimes_Unscaled(opacity, tenths) ==
  toFixed2(opacity)

(* (opacity * opacityMultiplier).toFixed(2), for an opacity of 0 to 1 *)
opacityTimes(opacity, tenths) ==
  CASE 0 <= opacity /\ opacity <= 100 ->
    toFixed2(RoundDiv(opacity * tenths, 10)
               - (IF <<opacity, tenths>> \in IeeeProductRoundsDown THEN 1 ELSE 0))

shadowNames ==
  <<"shadow-2xs", "shadow-xs", "shadow-sm", "shadow", "shadow-md", "shadow-lg",
    "shadow-xl", "shadow-2xl">>

(* getShadowMap with the shadow colour in the format and dialect of the    *)
(* stylesheet.                                                             *)
getShadowMapFormatted(themeEditorState, colorFormat, tailwindVersion) ==
  LET mode == themeEditorState.currentMode
      parts(styles) ==
        [hsl |-> colorFormatter(Chars[styles["shadow-color"]], colorFormat, tailwindVersion),
         offsetX |-> Chars[styles["shadow-offset-x"]],
         offsetY |-> Chars[styles["shadow-offset-y"]],
         blur |-> Chars[styles["shadow-blur"]],
         spread |-> Chars[styles["shadow-spread"]],
         opacity |-> parseFloat(Chars[styles["shadow-opacity"]])]
      layer(x, y, b, s, c) ==
        x \o <<" ">> \o y \o <<" ">> \o b \o <<" ">> \o s \o <<" ">> \o c
      shadowMap(p) ==
        LET color(tenths) ==
              <<"h", "s", "l", "(">> \o p.hsl \o <<" ", "/", " ">>
                \o ByValue(LAMBDA opacity : opacityTimes(opacity, tenths),
                           p.opacity)
                \o <<")">>
            spread2 ==
              ByValue(SignedNumberChars,
                      ByValue(parseFloat,
                              replaceFirst(p.spread, <<"p", "x">>, <<>>)) - 100)
                \o <<"p", "x">>
            secondLayer(fixedOffsetY, fixedBlur) ==
              layer(p.offsetX, fixedOffsetY, fixedBlur, spread2, color(10))
            single(tenths) ==
              layer(p.offsetX, p.offsetY, p.blur, p.spread, color(tenths))
            double(fixedOffsetY, fixedBlur) ==
              single(10) \o <<",", " ">> \o secondLayer(fixedOffsetY, fixedBlur) IN
        [name \in {shadowNames[i] : i \in 1..Len(shadowNames)} |->
           CASE name \in {"shadow-2xs", "shadow-xs"} -> single(5)
             [] name = "shadow-2xl" -> single(25)
             [] name \in {"shadow-sm", "shadow"} ->
                  double(<<"1", "p", "x">>, <<"2", "p", "x">>)
             [] name = "shadow-md" -> double(<<"2", "p", "x">>, <<"4", "p", "x">>)
             [] name = "shadow-lg" -> double(<<"4", "p", "x">>, <<"6", "p", "x">>)
             [] name = "shadow-xl" ->
                  double(<<"8", "p", "x">>, <<"1", "0", "p", "x">>)] IN
  ByValue(shadowMap,
          ByValue(parts, Spread(defaultStyles[mode], themeEditorState.styles[mode])))

(* getShadowMap: the merged styles of the mode, then the constants read    *)
(* from them (parts), then the map.                                        *)
getShadowMap(themeEditorState) ==
  LET mode == themeEditorState.currentMode
      parts(styles) ==
        [hsl |-> colorFormatter(Chars[styles["shadow-color"]], "hsl", "3"),
         offsetX |-> Chars[styles["shadow-offset-x"]],
         offsetY |-> Chars[styles["shadow-offset-y"]],
         blur |-> Chars[styles["shadow-blur"]],
         spread |-> Chars[styles["shadow-spread"]],
         opacity |-> parseFloat(Chars[styles["shadow-opacity"]])]
      layer(x, y, b, s, c) ==
        x \o <<" ">> \o y \o <<" ">> \o b \o <<" ">> \o s \o <<" ">> \o c
      shadowMap(p) ==
        LET color(tenths) ==
              <<"h", "s", "l", "(">> \o p.hsl \o <<" ", "/", " ">>
                \o ByValue(LAMBDA opacity : opacityTimes(opacity, tenths),
                           p.opacity)
                \o <<")">>
            spread2 ==
              ByValue(SignedNumberChars,
                      ByValue(parseFloat,
                              replaceFirst(p.spread, <<"p", "x">>, <<>>)) - 100)
                \o <<"p", "x">>
            secondLayer(fixedOffsetY, fixedBlur) ==
              layer(p.offsetX, fixedOffsetY, fixedBlur, spread2, color(10))
            single(tenths) ==
              layer(p.offsetX, p.offsetY, p.blur, p.spread, color(tenths))
            double(fixedOffsetY, fixedBlur) ==
              single(10) \o <<",", " ">> \o secondLayer(fixedOffsetY, fixedBlur) IN
        [name \in {shadowNames[i] : i \in 1..Len(shadowNames)} |->
           CASE name \in {"shadow-2xs", "shadow-xs"} -> single(5)
             [] name = "shadow-2xl" -> single(25)
             [] name \in {"shadow-sm", "shadow"} ->
                  double(<<"1", "p", "x">>, <<"2", "p", "x">>)
             [] name = "shadow-md" -> double(<<"2", "p", "x">>, <<"4", "p", "x">>)
             [] name = "shadow-lg" -> double(<<"4", "p", "x">>, <<"6", "p", "x">>)
             [] name = "shadow-xl" ->
                  double(<<"8", "p", "x">>, <<"1", "0", "p", "x">>)] IN
  ByValue(shadowMap,
          ByValue(parts, Spread(defaultStyles[mode], themeEditorState.styles[mode])))

(***************************************************************************)
(* utils/parse-css-input.ts                                                *)
(***************************************************************************)
nonColorVariables == COMMON_STYLES

VARIABLE_PREFIX == <<"-", "-">>

(* processColorValue that wraps every value, not only the bare triplets. *)
processColorValue_AlwaysWraps(value) ==
  <<"h", "s", "l", "(">> \o value \o <<")">>

(* /^\d/.test(value) ? `hsl(${value})` : value *)
processColorValue(value) ==
  IF value # <<>> /\ Head(value) \in Digits
    THEN <<"h", "s", "l", "(">> \o value \o <<")">>
    ELSE value

(* One match of new RegExp(`${escapeRegExp(selector)}\\s*{([^}]+)}`) that  *)
(* starts at index i: the selector text, white space, "{", one or more     *)
(* characters other than "}", "}".                                         *)
BlockMatchAt(input, selector, i) ==
  LET open == SkipSpaces(input, i + Len(selector))
      close == FirstIndex(input, {"}"}, open + 1) IN
  IF /\ StartsWithAt(input, i, selector)
     /\ open <= Len(input)
     /\ input[open] = "{"
     /\ close > open + 1
    THEN [matched |-> TRUE, group |-> SubSeq(input, open + 1, close - 1)]
    ELSE [matched |-> FALSE, group |-> <<>>]

extractCssBlockContent_AnySelector(input, selector) ==
  LET I == {i \in 1..Len(input) : BlockMatchAt(input, <<>>, i).matched} IN
  IF I = {} THEN <<>>
  ELSE trim(BlockMatchAt(input, <<>>, Min(I)).group)

(* input.match(regex)?.[1]?.trim() || null; null and "" are both <<>> *)
extractCssBlockContent(input, selector) ==
  LET I == {i \in 1..Len(input) : BlockMatchAt(input, selector, i).matched} IN
  IF I = {} THEN <<>>
  ELSE trim(BlockMatchAt(input, selector, Min(I)).group)

(* One match of /--[^:]+:\s*[^;]+/ that starts at index i: "--", one or    *)
(* more characters other than ":", ":", then one or more characters other  *)
(* than ";".                                                               *)
DeclarationMatchAt(cssContent, i) ==
  LET colon == FirstIndex(cssContent, {":"}, i + 2)
      semicolon == FirstIndex(cssContent, {";"}, colon + 1)
      end == IF semicolon = 0 THEN Len(cssContent) ELSE semicolon - 1 IN
  IF /\ StartsWithAt(cssContent, i, <<"-", "-">>)
     /\ colon > i + 2
     /\ end > colon
    THEN [matched |-> TRUE, end |-> end]
    ELSE [matched |-> FALSE, end |-> 0]

(* cssContent.match(/--[^:]+:\s*[^;]+/g) || [] *)
RECURSIVE matchesFrom(_, _, _)
matchesFrom(cssContent, starts, from) ==
  LET I == {i \in starts : i >= from /\ DeclarationMatchAt(cssContent, i).matched} IN
  IF I = {} THEN <<>>
  ELSE <<SubSeq(cssContent, Min(I), DeclarationMatchAt(cssContent, Min(I)).end)>>
         \o matchesFrom(cssContent, starts,
                        DeclarationMatchAt(cssContent, Min(I)).end + 1)

variableDeclarations(cssContent, from) ==
  matchesFrom(cssContent,
              {i \in 1..Len(cssContent) : StartsWithAt(cssContent, i, <<"-", "-">>)},
              from)

(* const [name, value] = declaration.split(":").map((part) => part.trim()) *)
splitDeclaration(declaration) ==
  LET first == FirstIndex(declaration, {":"}, 1)
      second == FirstIndex(declaration, {":"}, first + 1) IN
  [name |-> trim(SubSeq(declaration, 1, first - 1)),
   value |-> trim(SubSeq(declaration, first + 1,
                         IF second = 0 THEN Len(declaration) ELSE second - 1))]

parseDeclaration_AnyName(declaration, target, validNames) ==
  LET parts == splitDeclaration(declaration)
      cleanName == Str(replaceFirst(parts.name, VARIABLE_PREFIX, <<>>)) IN
  IF cleanName \in nonColorVariables
    THEN SpreadSet(target, cleanName, Str(parts.value))
    ELSE SpreadSet(target, cleanName,
                   colorFormatterHex(processColorValue(parts.value)))

(* The body of the forEach: the target after one declaration. *)
parseDeclaration(declaration, target, validNames) ==
  LET parts == splitDeclaration(declaration)
      cleanName == Str(replaceFirst(parts.name, VARIABLE_PREFIX, <<>>)) IN
  IF cleanName \notin validNames THEN target
  ELSE IF cleanName \in nonColorVariables
    THEN SpreadSet(target, cleanName, Str(parts.value))
    ELSE SpreadSet(target, cleanName,
                   colorFormatterHex(processColorValue(parts.value)))

(* variableDeclarations.forEach: the declarations in order, each on the     *)
(* target the ones before it left; the first half, then the second half.   *)
RECURSIVE parseDeclarations(_, _, _)
parseDeclarations(declarations, target, validNames) ==
  LET n == Len(declarations)
      secondHalf(firstDone) ==
        parseDeclarations(SubSeq(declarations, (n \div 2) + 1, n), firstDone,
                          validNames) IN
  IF n = 0 THEN target
  ELSE IF n = 1 THEN parseDeclaration(declarations[1], target, validNames)
  ELSE ByValue(secondHalf,
               parseDeclarations(SubSeq(declarations, 1, n \div 2), target,
                                 validNames))

parseColorVariables(cssContent, target, validNames) ==
  parseDeclarations(variableDeclarations(cssContent, 1), target, validNames)

parseCssInput(input) ==
  LET rootContent == extractCssBlockContent(input, <<":", "r", "o", "o", "t">>)
      darkContent == extractCssBlockContent(input, <<".", "d", "a", "r", "k">>) IN
  [lightColors |-> IF rootContent # <<>>
                     THEN parseColorVariables(rootContent, EmptyObject, variableNames)
                     ELSE EmptyObject,
   darkColors |-> IF darkContent # <<>>
                    THEN parseColorVariables(darkContent, EmptyObject, variableNames)
                    ELSE EmptyObject]

(***************************************************************************)
(***************************************************************************)
(* utils/theme-style-generator.ts.  The generated stylesheet is a text;    *)
(* formatColor is colorFormatter with the chosen colorFormat and           *)
(* tailwindVersion.                                                        *)
(***************************************************************************)
(* One line of a template: "\n  --name: value;" *)
variableLine(name, value) ==
  <<"\n", " ", " ", "-", "-">> \o Chars[name] \o <<":", " ">> \o value \o <<";">>

(* The lines of the names, in order; values[i] is the value of names[i]. *)
RECURSIVE linesFrom(_, _, _)
linesFrom(names, values, i) ==
  IF i > Len(names) THEN <<>>
  ELSE variableLine(names[i], values[i]) \o linesFrom(names, values, i + 1)

variableLines(names, values) ==
  ByValue(LAMBDA evaluated : linesFrom(names, evaluated, 1), values)

colorVariableNames ==
  <<"background", "foreground", "card", "card-foreground", "popover",
    "popover-foreground", "primary", "primary-foreground", "secondary",
    "secondary-foreground", "muted", "muted-foreground", "accent",
    "accent-foreground", "destructive", "destructive-foreground", "border",
    "input", "ring", "chart-1", "chart-2", "chart-3", "chart-4", "chart-5",
    "sidebar", "sidebar-foreground", "sidebar-primary",
    "sidebar-primary-foreground", "sidebar-accent",
    "sidebar-accent-foreground", "sidebar-border", "sidebar-ring">>

generateColorVariables(themeStyles, mode, colorFormat, tailwindVersion) ==
  LET styles == themeStyles[mode]
      formatColor(name) ==
        colorFormatter(Chars[styles[name]], colorFormat, tailwindVersion) IN
  variableLines(colorVariableNames,
                [i \in 1..Len(colorVariableNames) |-> formatColor(colorVariableNames[i])])

generateFontVariables(themeStyles, mode) ==
  LET styles == themeStyles[mode]
      raw(name) == Chars[styles[name]] IN
  variableLines(<<"font-sans", "font-serif", "font-mono">>,
                <<raw("font-sans"), raw("font-serif"), raw("font-mono")>>)

generateShadowVariables(shadowMap) ==
  variableLines(shadowNames,
                [i \in 1..Len(shadowNames) |-> shadowMap[shadowNames[i]]])

(* The template of generateTrackingVariables. *)
trackingVariablesText ==
  <<"\n", "\n", " ", " ", "-", "-", "t", "r", "a", "c", "k", "i", "n", "g",
    "-", "t", "i", "g", "h", "t", "e", "r", ":", " ", "c", "a", "l", "c",
    "(", "v", "a", "r", "(", "-", "-", "t", "r", "a", "c", "k", "i", "n",
    "g", "-", "n", "o", "r", "m", "a", "l", ")", " ", "-", " ", "0", ".",
    "0", "5", "e", "m", ")", ";", "\n", " ", " ", "-", "-", "t", "r", "a",
    "c", "k", "i", "n", "g", "-", "t", "i", "g", "h", "t", ":", " ", "c",
    "a", "l", "c", "(", "v", "a", "r", "(", "-", "-", "t", "r", "a", "c",
    "k", "i", "n", "g", "-", "n", "o", "r", "m", "a", "l", ")", " ", "-",
    " ", "0", ".", "0", "2", "5", "e", "m", ")", ";", "\n", " ", " ", "-",
    "-", "t", "r", "a", "c", "k", "i", "n", "g", "-", "n", "o", "r", "m",
    "a", "l", ":", " ", "v", "a", "r", "(", "-", "-", "t", "r", "a", "c",
    "k", "i", "n", "g", "-", "n", "o", "r", "m", "a", "l", ")", ";", "\n",
    " ", " ", "-", "-", "t", "r", "a", "c", "k", "i", "n", "g", "-", "w",
    "i", "d", "e", ":", " ", "c", "a", "l", "c", "(", "v", "a", "r", "(",
    "-", "-", "t", "r", "a", "c", "k", "i", "n", "g", "-", "n", "o", "r",
    "m", "a", "l", ")", " ", "+", " ", "0", ".", "0", "2", "5", "e", "m",
    ")", ";", "\n", " ", " ", "-", "-", "t", "r", "a", "c", "k", "i", "n",
    "g", "-", "w", "i", "d", "e", "r", ":", " ", "c", "a", "l", "c", "(",
    "v", "a", "r", "(", "-", "-", "t", "r", "a", "c", "k", "i", "n", "g",
    "-", "n", "o", "r", "m", "a", "l", ")", " ", "+", " ", "0", ".", "0",
    "5", "e", "m", ")", ";", "\n", " ", " ", "-", "-", "t", "r", "a", "c",
    "k", "i", "n", "g", "-", "w", "i", "d", "e", "s", "t", ":", " ", "c",
    "a", "l", "c", "(", "v", "a", "r", "(", "-", "-", "t", "r", "a", "c",
    "k", "i", "n", "g", "-", "n", "o", "r", "m", "a", "l", ")", " ", "+",
    " ", "0", ".", "1", "e", "m", ")", ";">>

(* generateTrackingVariables without the test of the light letter-spacing. *)
generateTrackingVariables_Always(themeStyles) ==
  trackingVariablesText

generateTrackingVariables(themeStyles) ==
  LET styles == themeStyles["light"] IN
  IF styles["letter-spacing"] = "0em" THEN <<>> ELSE trackingVariablesText

(* generateThemeVariables with the two override lines in every mode's    *)
(* block, from that mode's values.                                       *)
generateThemeVariables_EveryMode(themeStyles, mode, colorFormat, tailwindVersion) ==
  LET selector == IF mode = "dark" THEN <<".", "d", "a", "r", "k">>
                  ELSE <<":", "r", "o", "o", "t">>
      colorVars == generateColorVariables(themeStyles, mode, colorFormat,
                                          tailwindVersion)
      fontVars == generateFontVariables(themeStyles, mode)
      radiusVar == variableLine("radius", Chars[themeStyles[mode]["radius"]])
      shadowVars == generateShadowVariables(
                      getShadowMap([styles |-> themeStyles, currentMode |-> mode]))
      spacingVar ==
        IF themeStyles[mode]["spacing"] # defaultLightThemeStyles["spacing"]
          THEN <<"\n", " ", " ", "-", "-", "s", "p", "a", "c", "i", "n", "g", ":", " ">>
                 \o Chars[themeStyles[mode]["spacing"]] \o <<";">>
          ELSE <<>>
      trackingVars ==
        IF themeStyles[mode]["letter-spacing"]
             # defaultLightThemeStyles["letter-spacing"]
          THEN <<"\n", " ", " ", "-", "-", "t", "r", "a", "c", "k", "i", "n", "g",
                 "-", "n", "o", "r", "m", "a", "l", ":", " ">>
                 \o Chars[themeStyles[mode]["letter-spacing"]] \o <<";">>
          ELSE <<>> IN
  selector \o <<" ", "{">> \o colorVars \o fontVars \o radiusVar \o shadowVars
    \o trackingVars \o spacingVar \o <<"\n", "}">>


(* generateThemeVariables with shadows in the format of the stylesheet. *)
generateThemeVariables_FormattedShadows(themeStyles, mode, colorFormat, tailwindVersion) ==
  LET selector == IF mode = "dark" THEN <<".", "d", "a", "r", "k">>
                  ELSE <<":", "r", "o", "o", "t">>
      colorVars == generateColorVariables(themeStyles, mode, colorFormat,
                                          tailwindVersion)
      fontVars == generateFontVariables(themeStyles, mode)
      radiusVar == variableLine("radius", Chars[themeStyles[mode]["radius"]])
      shadowVars == generateShadowVariables(
                      getShadowMapFormatted([styles |-> themeStyles, currentMode |-> mode],
                                            colorFormat, tailwindVersion))
      spacingVar ==
        IF mode = "light"
           /\ themeStyles["light"]["spacing"] # defaultLightThemeStyles["spacing"]
          THEN <<"\n", " ", " ", "-", "-", "s", "p", "a", "c", "i", "n", "g", ":", " ">>
                 \o Chars[themeStyles["light"]["spacing"]] \o <<";">>
          ELSE <<>>
      trackingVars ==
        IF mode = "light"
           /\ themeStyles["light"]["letter-spacing"]
                # defaultLightThemeStyles["letter-spacing"]
          THEN <<"\n", " ", " ", "-", "-", "t", "r", "a", "c", "k", "i", "n", "g",
                 "-", "n", "o", "r", "m", "a", "l", ":", " ">>
                 \o Chars[themeStyles["light"]["letter-spacing"]] \o <<";">>
          ELSE <<>> IN
  selector \o <<" ", "{">> \o colorVars \o fontVars \o radiusVar \o shadowVars
    \o trackingVars \o spacingVar \o <<"\n", "}">>

generateThemeVariables(themeStyles, mode, colorFormat, tailwindVersion) ==
  LET selector == IF mode = "dark" THEN <<".", "d", "a", "r", "k">>
                  ELSE <<":", "r", "o", "o", "t">>
      colorVars == generateColorVariables(themeStyles, mode, colorFormat,
                                          tailwindVersion)
      fontVars == generateFontVariables(themeStyles, mode)
      radiusVar == variableLine("radius", Chars[themeStyles[mode]["radius"]])
      shadowVars == generateShadowVariables(
                      getShadowMap([styles |-> themeStyles, currentMode |-> mode]))
      spacingVar ==
        IF mode = "light"
           /\ themeStyles["light"]["spacing"] # defaultLightThemeStyles["spacing"]
          THEN <<"\n", " ", " ", "-", "-", "s", "p", "a", "c", "i", "n", "g", ":", " ">>
                 \o Chars[themeStyles["light"]["spacing"]] \o <<";">>
          ELSE <<>>
      trackingVars ==
        IF mode = "light"
           /\ themeStyles["light"]["letter-spacing"]
                # defaultLightThemeStyles["letter-spacing"]
          THEN <<"\n", " ", " ", "-", "-", "t", "r", "a", "c", "k", "i", "n", "g",
                 "-", "n", "o", "r", "m", "a", "l", ":", " ">>
                 \o Chars[themeStyles["light"]["letter-spacing"]] \o <<";">>
          ELSE <<>> IN
  selector \o <<" ", "{">> \o colorVars \o fontVars \o radiusVar \o shadowVars
    \o trackingVars \o spacingVar \o <<"\n", "}">>

(* The template of generateTailwindV4ThemeInline up to the tracking        *)
(* variables.                                                              *)
themeInlineText ==
  <<"@", "t", "h", "e", "m", "e", " ", "i", "n", "l", "i", "n", "e", " ",
    "{", "\n", " ", " ", "-", "-", "c", "o", "l", "o", "r", "-", "b", "a",
    "c", "k", "g", "r", "o", "u", "n", "d", ":", " ", "v", "a", "r", "(",
    "-", "-", "b", "a", "c", "k", "g", "r", "o", "u", "n", "d", ")", ";",
    "\n", " ", " ", "-", "-", "c", "o", "l", "o", "r", "-", "f", "o", "r",
    "e", "g", "r", "o", "u", "n", "d", ":", " ", "v", "a", "r", "(", "-",
    "-", "f", "o", "r", "e", "g", "r", "o", "u", "n", "d", ")", ";", "\n",
    " ", " ", "-", "-", "c", "o", "l", "o", "r", "-", "c", "a", "r", "d",
    ":", " ", "v", "a", "r", "(", "-", "-", "c", "a", "r", "d", ")", ";",
    "\n", " ", " ", "-", "-", "c", "o", "l", "o", "r", "-", "c", "a", "r",
    "d", "-", "f", "o", "r", "e", "g", "r", "o", "u", "n", "d", ":", " ",
    "v", "a", "r", "(", "-", "-", "c", "a", "r", "d", "-", "f", "o", "r",
    "e", "g", "r", "o", "u", "n", "d", ")", ";", "\n", " ", " ", "-", "-",
    "c", "o", "l", "o", "r", "-", "p", "o", "p", "o", "v", "e", "r", ":",
    " ", "v", "a", "r", "(", "-", "-", "p", "o", "p", "o", "v", "e", "r",
    ")", ";", "\n", " ", " ", "-", "-", "c", "o", "l", "o", "r", "-", "p",
    "o", "p", "o", "v", "e", "r", "-", "f", "o", "r", "e", "g", "r", "o",
    "u", "n", "d", ":", " ", "v", "a", "r", "(", "-", "-", "p", "o", "p",
    "o", "v", "e", "r", "-", "f", "o", "r", "e", "g", "r", "o", "u", "n",
    "d", ")", ";", "\n", " ", " ", "-", "-", "c", "o", "l", "o", "r", "-",
    "p", "r", "i", "m", "a", "r", "y", ":", " ", "v", "a", "r", "(", "-",
    "-", "p", "r", "i", "m", "a", "r", "y", ")", ";", "\n", " ", " ", "-",
    "-", "c", "o", "l", "o", "r", "-", "p", "r", "i", "m", "a", "r", "y",
    "-", "f", "o", "r", "e", "g", "r", "o", "u", "n", "d", ":", " ", "v",
    "a", "r", "(", "-", "-", "p", "r", "i", "m", "a", "r", "y", "-", "f",
    "o", "r", "e", "g", "r", "o", "u", "n", "d", ")", ";", "\n", " ", " ",
    "-", "-", "c", "o", "l", "o", "r", "-", "s", "e", "c", "o", "n", "d",
    "a", "r", "y", ":", " ", "v", "a", "r", "(", "-", "-", "s", "e", "c",
    "o", "n", "d", "a", "r", "y", ")", ";", "\n", " ", " ", "-", "-", "c",
    "o", "l", "o", "r", "-", "s", "e", "c", "o", "n", "d", "a", "r", "y",
    "-", "f", "o", "r", "e", "g", "r", "o", "u", "n", "d", ":", " ", "v",
    "a", "r", "(", "-", "-", "s", "e", "c", "o", "n", "d", "a", "r", "y",
    "-", "f", "o", "r", "e", "g", "r", "o", "u", "n", "d", ")", ";", "\n",
    " ", " ", "-", "-", "c", "o", "l", "o", "r", "-", "m", "u", "t", "e",
    "d", ":", " ", "v", "a", "r", "(", "-", "-", "m", "u", "t", "e", "d",
    ")", ";", "\n", " ", " ", "-", "-", "c", "o", "l", "o", "r", "-", "m",
    "u", "t", "e", "d", "-", "f", "o", "r", "e", "g", "r", "o", "u", "n",
    "d", ":", " ", "v", "a", "r", "(", "-", "-", "m", "u", "t", "e", "d",
    "-", "f", "o", "r", "e", "g", "r", "o", "u", "n", "d", ")", ";", "\n",
    " ", " ", "-", "-", "c", "o", "l", "o", "r", "-", "a", "c", "c", "e",
    "n", "t", ":", " ", "v", "a", "r", "(", "-", "-", "a", "c", "c", "e",
    "n", "t", ")", ";", "\n", " ", " ", "-", "-", "c", "o", "l", "o", "r",
    "-", "a", "c", "c", "e", "n", "t", "-", "f", "o", "r", "e", "g", "r",
    "o", "u", "n", "d", ":", " ", "v", "a", "r", "(", "-", "-", "a", "c",
    "c", "e", "n", "t", "-", "f", "o", "r", "e", "g", "r", "o", "u", "n",
    "d", ")", ";", "\n", " ", " ", "-", "-", "c", "o", "l", "o", "r", "-",
    "d", "e", "s", "t", "r", "u", "c", "t", "i", "v", "e", ":", " ", "v",
    "a", "r", "(", "-", "-", "d", "e", "s", "t", "r", "u", "c", "t", "i",
    "v", "e", ")", ";", "\n", " ", " ", "-", "-", "c", "o", "l", "o", "r",
    "-", "d", "e", "s", "t", "r", "u", "c", "t", "i", "v", "e", "-", "f",
    "o", "r", "e", "g", "r", "o", "u", "n", "d", ":", " ", "v", "a", "r",
    "(", "-", "-", "d", "e", "s", "t", "r", "u", "c", "t", "i", "v", "e",
    "-", "f", "o", "r", "e", "g", "r", "o", "u", "n", "d", ")", ";", "\n",
    " ", " ", "-", "-", "c", "o", "l", "o", "r", "-", "b", "o", "r", "d",
    "e", "r", ":", " ", "v", "a", "r", "(", "-", "-", "b", "o", "r", "d",
    "e", "r", ")", ";", "\n", " ", " ", "-", "-", "c", "o", "l", "o", "r",
    "-", "i", "n", "p", "u", "t", ":", " ", "v", "a", "r", "(", "-", "-",
    "i", "n", "p", "u", "t", ")", ";", "\n", " ", " ", "-", "-", "c", "o",
    "l", "o", "r", "-", "r", "i", "n", "g", ":", " ", "v", "a", "r", "(",
    "-", "-", "r", "i", "n", "g", ")", ";", "\n", " ", " ", "-", "-", "c",
    "o", "l", "o", "r", "-", "c", "h", "a", "r", "t", "-", "1", ":", " ",
    "v", "a", "r", "(", "-", "-", "c", "h", "a", "r", "t", "-", "1", ")",
    ";", "\n", " ", " ", "-", "-", "c", "o", "l", "o", "r", "-", "c", "h",
    "a", "r", "t", "-", "2", ":", " ", "v", "a", "r", "(", "-", "-", "c",
    "h", "a", "r", "t", "-", "2", ")", ";", "\n", " ", " ", "-", "-", "c",
    "o", "l", "o", "r", "-", "c", "h", "a", "r", "t", "-", "3", ":", " ",
    "v", "a", "r", "(", "-", "-", "c", "h", "a", "r", "t", "-", "3", ")",
    ";", "\n", " ", " ", "-", "-", "c", "o", "l", "o", "r", "-", "c", "h",
    "a", "r", "t", "-", "4", ":", " ", "v", "a", "r", "(", "-", "-", "c",
    "h", "a", "r", "t", "-", "4", ")", ";", "\n", " ", " ", "-", "-", "c",
    "o", "l", "o", "r", "-", "c", "h", "a", "r", "t", "-", "5", ":", " ",
    "v", "a", "r", "(", "-", "-", "c", "h", "a", "r", "t", "-", "5", ")",
    ";", "\n", " ", " ", "-", "-", "c", "o", "l", "o", "r", "-", "s", "i",
    "d", "e", "b", "a", "r", ":", " ", "v", "a", "r", "(", "-", "-", "s",
    "i", "d", "e", "b", "a", "r", ")", ";", "\n", " ", " ", "-", "-", "c",
    "o", "l", "o", "r", "-", "s", "i", "d", "e", "b", "a", "r", "-", "f",
    "o", "r", "e", "g", "r", "o", "u", "n", "d", ":", " ", "v", "a", "r",
    "(", "-", "-", "s", "i", "d", "e", "b", "a", "r", "-", "f", "o", "r",
    "e", "g", "r", "o", "u", "n", "d", ")", ";", "\n", " ", " ", "-", "-",
    "c", "o", "l", "o", "r", "-", "s", "i", "d", "e", "b", "a", "r", "-",
    "p", "r", "i", "m", "a", "r", "y", ":", " ", "v", "a", "r", "(", "-",
    "-", "s", "i", "d", "e", "b", "a", "r", "-", "p", "r", "i", "m", "a",
    "r", "y", ")", ";", "\n", " ", " ", "-", "-", "c", "o", "l", "o", "r",
    "-", "s", "i", "d", "e", "b", "a", "r", "-", "p", "r", "i", "m", "a",
    "r", "y", "-", "f", "o", "r", "e", "g", "r", "o", "u", "n", "d", ":",
    " ", "v", "a", "r", "(", "-", "-", "s", "i", "d", "e", "b", "a", "r",
    "-", "p", "r", "i", "m", "a", "r", "y", "-", "f", "o", "r", "e", "g",
    "r", "o", "u", "n", "d", ")", ";", "\n", " ", " ", "-", "-", "c", "o",
    "l", "o", "r", "-", "s", "i", "d", "e", "b", "a", "r", "-", "a", "c",
    "c", "e", "n", "t", ":", " ", "v", "a", "r", "(", "-", "-", "s", "i",
    "d", "e", "b", "a", "r", "-", "a", "c", "c", "e", "n", "t", ")", ";",
    "\n", " ", " ", "-", "-", "c", "o", "l", "o", "r", "-", "s", "i", "d",
    "e", "b", "a", "r", "-", "a", "c", "c", "e", "n", "t", "-", "f", "o",
    "r", "e", "g", "r", "o", "u", "n", "d", ":", " ", "v", "a", "r", "(",
    "-", "-", "s", "i", "d", "e", "b", "a", "r", "-", "a", "c", "c", "e",
    "n", "t", "-", "f", "o", "r", "e", "g", "r", "o", "u", "n", "d", ")",
    ";", "\n", " ", " ", "-", "-", "c", "o", "l", "o", "r", "-", "s", "i",
    "d", "e", "b", "a", "r", "-", "b", "o", "r", "d", "e", "r", ":", " ",
    "v", "a", "r", "(", "-", "-", "s", "i", "d", "e", "b", "a", "r", "-",
    "b", "o", "r", "d", "e", "r", ")", ";", "\n", " ", " ", "-", "-", "c",
    "o", "l", "o", "r", "-", "s", "i", "d", "e", "b", "a", "r", "-", "r",
    "i", "n", "g", ":", " ", "v", "a", "r", "(", "-", "-", "s", "i", "d",
    "e", "b", "a", "r", "-", "r", "i", "n", "g", ")", ";", "\n", "\n", " ",
    " ", "-", "-", "f", "o", "n", "t", "-", "s", "a", "n", "s", ":", " ",
    "v", "a", "r", "(", "-", "-", "f", "o", "n", "t", "-", "s", "a", "n",
    "s", ")", ";", "\n", " ", " ", "-", "-", "f", "o", "n", "t", "-", "m",
    "o", "n", "o", ":", " ", "v", "a", "r", "(", "-", "-", "f", "o", "n",
    "t", "-", "m", "o", "n", "o", ")", ";", "\n", " ", " ", "-", "-", "f",
    "o", "n", "t", "-", "s", "e", "r", "i", "f", ":", " ", "v", "a", "r",
    "(", "-", "-", "f", "o", "n", "t", "-", "s", "e", "r", "i", "f", ")",
    ";", "\n", "\n", " ", " ", "-", "-", "r", "a", "d", "i", "u", "s", "-",
    "s", "m", ":", " ", "c", "a", "l", "c", "(", "v", "a", "r", "(", "-",
    "-", "r", "a", "d", "i", "u", "s", ")", " ", "-", " ", "4", "p", "x",
    ")", ";", "\n", " ", " ", "-", "-", "r", "a", "d", "i", "u", "s", "-",
    "m", "d", ":", " ", "c", "a", "l", "c", "(", "v", "a", "r", "(", "-",
    "-", "r", "a", "d", "i", "u", "s", ")", " ", "-", " ", "2", "p", "x",
    ")", ";", "\n", " ", " ", "-", "-", "r", "a", "d", "i", "u", "s", "-",
    "l", "g", ":", " ", "v", "a", "r", "(", "-", "-", "r", "a", "d", "i",
    "u", "s", ")", ";", "\n", " ", " ", "-", "-", "r", "a", "d", "i", "u",
    "s", "-", "x", "l", ":", " ", "c", "a", "l", "c", "(", "v", "a", "r",
    "(", "-", "-", "r", "a", "d", "i", "u", "s", ")", " ", "+", " ", "4",
    "p", "x", ")", ";", "\n", "\n", " ", " ", "-", "-", "s", "h", "a", "d",
    "o", "w", "-", "2", "x", "s", ":", " ", "v", "a", "r", "(", "-", "-",
    "s", "h", "a", "d", "o", "w", "-", "2", "x", "s", ")", ";", "\n", " ",
    " ", "-", "-", "s", "h", "a", "d", "o", "w", "-", "x", "s", ":", " ",
    "v", "a", "r", "(", "-", "-", "s", "h", "a", "d", "o", "w", "-", "x",
    "s", ")", ";", "\n", " ", " ", "-", "-", "s", "h", "a", "d", "o", "w",
    "-", "s", "m", ":", " ", "v", "a", "r", "(", "-", "-", "s", "h", "a",
    "d", "o", "w", "-", "s", "m", ")", ";", "\n", " ", " ", "-", "-", "s",
    "h", "a", "d", "o", "w", ":", " ", "v", "a", "r", "(", "-", "-", "s",
    "h", "a", "d", "o", "w", ")", ";", "\n", " ", " ", "-", "-", "s", "h",
    "a", "d", "o", "w", "-", "m", "d", ":", " ", "v", "a", "r", "(", "-",
    "-", "s", "h", "a", "d", "o", "w", "-", "m", "d", ")", ";", "\n", " ",
    " ", "-", "-", "s", "h", "a", "d", "o", "w", "-", "l", "g", ":", " ",
    "v", "a", "r", "(", "-", "-", "s", "h", "a", "d", "o", "w", "-", "l",
    "g", ")", ";", "\n", " ", " ", "-", "-", "s", "h", "a", "d", "o", "w",
    "-", "x", "l", ":", " ", "v", "a", "r", "(", "-", "-", "s", "h", "a",
    "d", "o", "w", "-", "x", "l", ")", ";", "\n", " ", " ", "-", "-", "s",
    "h", "a", "d", "o", "w", "-", "2", "x", "l", ":", " ", "v", "a", "r",
    "(", "-", "-", "s", "h", "a", "d", "o", "w", "-", "2", "x", "l", ")",
    ";">>

generateTailwindV4ThemeInline(themeStyles) ==
  themeInlineText \o generateTrackingVariables(themeStyles) \o <<"\n", "}">>

bodyLetterSpacingText ==
  <<"\n", "\n", "b", "o", "d", "y", " ", "{", "\n", " ", " ", "l", "e",
    "t", "t", "e", "r", "-", "s", "p", "a", "c", "i", "n", "g", ":", " ",
    "v", "a", "r", "(", "-", "-", "t", "r", "a", "c", "k", "i", "n", "g",
    "-", "n", "o", "r", "m", "a", "l", ")", ";", "\n", "}">>

INVALID_THEME_STYLES == "Invalid theme styles: missing light or dark mode"

(* generateThemeCode with a validation that only asks for the light token   *)
(* set.                                                                    *)
generateThemeCode_RequiresOnlyLight(themeEditorState, colorFormat, tailwindVersion) ==
  IF "light" \notin DOMAIN themeEditorState.styles
    THEN [threw |-> TRUE, value |-> INVALID_THEME_STYLES]
    ELSE [threw |-> FALSE,
          value |-> generateThemeVariables(themeEditorState.styles, "light",
                                           colorFormat, tailwindVersion)]

(* generateThemeCode: [threw |-> FALSE, value |-> the stylesheet], or      *)
(* [threw |-> TRUE, value |-> the message of the Error].                   *)
generateThemeCode(themeEditorState, colorFormat, tailwindVersion) ==
  IF \/ "light" \notin DOMAIN themeEditorState.styles
     \/ "dark" \notin DOMAIN themeEditorState.styles
    THEN [threw |-> TRUE, value |-> INVALID_THEME_STYLES]
  ELSE
    LET themeStyles == themeEditorState.styles
        lightTheme == generateThemeVariables(themeStyles, "light", colorFormat,
                                             tailwindVersion)
        darkTheme == generateThemeVariables(themeStyles, "dark", colorFormat,
                                            tailwindVersion)
        tailwindV4Theme ==
          IF tailwindVersion = "4"
            THEN <<"\n", "\n">> \o generateTailwindV4ThemeInline(themeStyles)
            ELSE <<>>
        bodyLetterSpacing ==
          IF themeStyles["light"]["letter-spacing"] # "0em"
            THEN bodyLetterSpacingText
            ELSE <<>> IN
    [threw |-> FALSE,
     value |-> lightTheme \o <<"\n", "\n">> \o darkTheme \o tailwindV4Theme
                 \o bodyLetterSpacing]

(***************************************************************************)
(* The editor store (store/editor-store.ts) and its callers                *)
(***************************************************************************)
VARIABLES
  themeState,                   \* EditorStore.themeState
  hasChangedThemeFromDefault,   \* EditorStore.hasChangedThemeFromDefault
  last,                         \* the last operation and its arguments
  nEdits                        \* edits made so far

(* The theme= query parameter and the effect of useThemePresetFromUrl       *)
(* (hooks/use-theme-preset-from-url.ts).                                   *)
VARIABLES
  loadedParam,                  \* the theme parameter the page was loaded with
  themeParam,                   \* useQueryState("theme"): <<>> for null
  effectPending,                \* the effect runs after this render
  hookCalls                     \* the names the effect applied since the load

(* The toast store. *)
VARIABLES
  memoryState,                  \* memoryState
  toastTimeouts,                \* the keys of the Map toastTimeouts
  timers,                       \* the setTimeout calls not yet run, oldest first
  count                         \* count of genId

(* One debounced function and the clock. *)
VARIABLES
  timeoutId,                    \* timeoutId: <<>> while undefined, else <<id>>
  timeouts,                     \* the timers of setTimeout that have not run
  now,                          \* the time, in steps
  calls,                        \* the calls and cancels made, with their times
  invocations                   \* the invocations of fn, with their times

storeVars == <<themeState, hasChangedThemeFromDefault, last, nEdits>>

urlVars == <<loadedParam, themeParam, effectPending, hookCalls>>

toastVars == <<memoryState, toastTimeouts, timers, count>>

debounceVars == <<timeoutId, timeouts, now, calls, invocations>>

pageVars == <<urlVars, toastVars, debounceVars>>

vars == <<storeVars, pageVars>>

(* No theme parameter and no effect to run; no toast; no debounced call. *)
UrlIdle ==
  /\ loadedParam = <<>>
  /\ themeParam = <<>>
  /\ effectPending = FALSE
  /\ hookCalls = <<>>

ToastIdle ==
  /\ memoryState = [toasts |-> <<>>]
  /\ toastTimeouts = {}
  /\ timers = <<>>
  /\ count = 0

DebounceIdle ==
  /\ timeoutId = <<>>
  /\ timeouts = {}
  /\ now = 0
  /\ calls = <<>>
  /\ invocations = <<>>

PageIdle == UrlIdle /\ ToastIdle /\ DebounceIdle

(* prefersDark: window.matchMedia("(prefers-color-scheme: dark)").matches  *)
(* when the module is loaded.                                              *)
defaultThemeState(prefersDark) ==
  [styles |-> defaultStyles,
   currentMode |-> IF prefersDark THEN "dark" ELSE "light",
   preset |-> <<>>]

(* Preset names handed to applyThemePreset: the select's options (the      *)
(* catalog and "default") and whatever the theme= query parameter holds.   *)
Names ==
  (DOMAIN presets) \cup {"default", "", "nonexistent-xyz", "constructor"}

(* Keys and values the control panel's pickers and sliders hand over. *)
EditKeys ==
  COMMON_STYLES \cup {"primary", "background", "sidebar-ring", "shadow-color"}

EditValues(key) ==
  IF key \in {"font-sans", "font-serif", "font-mono"} THEN {"Inter, sans-serif"}
  ELSE IF key = "letter-spacing" THEN {"0.05em"}
  ELSE IF key = "shadow-opacity" THEN {"0.5"}
  ELSE IF key \in COMMON_STYLES THEN {"0.5rem"}
  ELSE {"#ff0000"}

Modes == {"light", "dark"}

OtherMode(m) == IF m = "light" THEN "dark" ELSE "light"

(* Bookkeeping: the operation that ran last, its preset name or token key, *)
(* whether it threw, whether a preset name was set when a reset started    *)
(* and whether the operation changed the styles.                           *)
NoArgs == [name |-> "", key |-> "", threw |-> FALSE]

Record(op, args) ==
  [op |-> op, name |-> args.name, key |-> args.key, threw |-> args.threw,
   hadPreset |-> (op = "resetToDefault" /\ themeState.preset # <<>>),
   changed |-> (themeState'.styles # themeState.styles)]

Init ==
  /\ \E prefersDark \in BOOLEAN : themeState = defaultThemeState(prefersDark)
  /\ hasChangedThemeFromDefault = FALSE
  /\ last = [op |-> "init", name |-> "", key |-> "", threw |-> FALSE,
             hadPreset |-> FALSE, changed |-> FALSE]
  /\ nEdits = 0
  /\ PageIdle

(* set({ themeState: state }) *)
setThemeState(state) ==
  /\ themeState' = state
  /\ UNCHANGED hasChangedThemeFromDefault

applyThemePreset_ResetsFlag(preset) ==
  LET styles == getPresetThemeStyles(preset) IN
  /\ IF styles.threw
       THEN UNCHANGED <<themeState, hasChangedThemeFromDefault>>
       ELSE /\ themeState' = [themeState EXCEPT !.preset = <<preset>>,
                                                !.styles = styles.value]
            /\ hasChangedThemeFromDefault' = (preset # "default")
  /\ last' = Record("applyThemePreset",
                    [NoArgs EXCEPT !.name = preset, !.threw = styles.threw])
  /\ UNCHANGED nEdits

applyThemePreset(preset) ==
  LET styles == getPresetThemeStyles(preset) IN
  \* a throw inside the object literal leaves the store untouched
  /\ IF styles.threw
       THEN UNCHANGED <<themeState, hasChangedThemeFromDefault>>
       ELSE /\ themeState' = [themeState EXCEPT !.preset = <<preset>>,
                                                !.styles = styles.value]
            /\ hasChangedThemeFromDefault' =
                 IF preset # "default" THEN TRUE ELSE hasChangedThemeFromDefault
  /\ last' = Record("applyThemePreset",
                    [NoArgs EXCEPT !.name = preset, !.threw = styles.threw])
  /\ UNCHANGED nEdits

resetToDefault_KeepsPreset ==
  /\ themeState' = [themeState EXCEPT !.styles = defaultStyles]
  /\ last' = Record("resetToDefault", NoArgs)
  /\ UNCHANGED <<hasChangedThemeFromDefault, nEdits>>

resetToDefault_ResetsMode ==
  /\ \E prefersDark \in BOOLEAN : themeState' = defaultThemeState(prefersDark)
  /\ last' = Record("resetToDefault", NoArgs)
  /\ UNCHANGED <<hasChangedThemeFromDefault, nEdits>>

resetToDefault ==
  LET mode == themeState.currentMode IN
  /\ \E prefersDark \in BOOLEAN :
       themeState' = [defaultThemeState(prefersDark) EXCEPT !.currentMode = mode]
  /\ last' = Record("resetToDefault", NoArgs)
  /\ UNCHANGED <<hasChangedThemeFromDefault, nEdits>>

(* themeState.preset || "default": an absent or empty name is falsy *)
presetOrDefault(state) ==
  IF state.preset = <<>> \/ state.preset = <<"">> THEN "default"
  ELSE state.preset[1]

resetToCurrentPreset_ToDefault ==
  /\ themeState' = [themeState EXCEPT !.styles = defaultStyles]
  /\ last' = Record("resetToCurrentPreset", NoArgs)
  /\ UNCHANGED <<hasChangedThemeFromDefault, nEdits>>

resetToCurrentPreset ==
  LET styles == getPresetThemeStyles(presetOrDefault(themeState)) IN
  /\ IF styles.threw
       THEN UNCHANGED themeState
       ELSE themeState' = [themeState EXCEPT !.styles = styles.value]
  /\ last' = Record("resetToCurrentPreset", [NoArgs EXCEPT !.threw = styles.threw])
  /\ UNCHANGED <<hasChangedThemeFromDefault, nEdits>>

(***************************************************************************)
(* components/editor: Editor and ThemeControlPanel                         *)
(***************************************************************************)
isThemeStyles(styles) ==
  "light" \in DOMAIN styles /\ "dark" \in DOMAIN styles

(* the `styles` prop Editor hands to the control panel *)
editorStyles ==
  IF ~isThemeStyles(themeState.styles) THEN defaultStyles
  ELSE themeState.styles

(* ThemeControlPanel.currentStyles *)
currentStyles(styles, currentMode) ==
  Spread(defaultStyles[currentMode], styles[currentMode])

(* Editor.handleStyleChange *)
handleStyleChange(newStyles) ==
  setThemeState([themeState EXCEPT !.styles = newStyles])

updateStyle_ActiveModeOnly(key, value) ==
  LET styles == editorStyles
      currentMode == themeState.currentMode IN
  /\ nEdits < MaxEdits
  /\ handleStyleChange(
       [styles EXCEPT ![currentMode] =
          SpreadSet(currentStyles(styles, currentMode), key, value)])
  /\ last' = Record("updateStyle", [NoArgs EXCEPT !.key = key])
  /\ nEdits' = nEdits + 1

updateStyle_BothModes(key, value) ==
  LET styles == editorStyles IN
  /\ nEdits < MaxEdits
  /\ handleStyleChange(
       [styles EXCEPT !.light = SpreadSet(styles.light, key, value),
                      !.dark = SpreadSet(styles.dark, key, value)])
  /\ last' = Record("updateStyle", [NoArgs EXCEPT !.key = key])
  /\ nEdits' = nEdits + 1

updateStyle(key, value) ==
  LET styles == editorStyles
      currentMode == themeState.currentMode IN
  /\ nEdits < MaxEdits
  /\ IF key \in COMMON_STYLES
       THEN handleStyleChange(
              [styles EXCEPT !.light = SpreadSet(styles.light, key, value),
                             !.dark = SpreadSet(styles.dark, key, value)])
       ELSE handleStyleChange(
              [styles EXCEPT ![currentMode] =
                 SpreadSet(currentStyles(styles, currentMode), key, value)])
  /\ last' = Record("updateStyle", [NoArgs EXCEPT !.key = key])
  /\ nEdits' = nEdits + 1

(* ThemeProvider.handleThemeChange, reached through toggleTheme/setTheme *)
handleThemeChange(newMode) ==
  /\ setThemeState([themeState EXCEPT !.currentMode = newMode])
  /\ last' = Record("handleThemeChange", NoArgs)
  /\ UNCHANGED nEdits

(* The texts pasted into the import dialog. *)
(* :root { --radius: 1rem; --primary: #F00; --unknown: 1; } *)
cssLightOnly ==
  <<":", "r", "o", "o", "t", " ", "{", " ", "-", "-", "r", "a", "d", "i",
    "u", "s", ":", " ", "1", "r", "e", "m", ";", " ", "-", "-", "p", "r",
    "i", "m", "a", "r", "y", ":", " ", "#", "F", "0", "0", ";", " ", "-",
    "-", "u", "n", "k", "n", "o", "w", "n", ":", " ", "1", ";", " ", "}">>

(* .dark {\n  --primary: 0 100% 50%;\n  --font-sans: Georgia, serif\n} *)
cssDarkOnly ==
  <<".", "d", "a", "r", "k", " ", "{", "\n", " ", " ", "-", "-", "p", "r",
    "i", "m", "a", "r", "y", ":", " ", "0", " ", "1", "0", "0", "%", " ",
    "5", "0", "%", ";", "\n", " ", " ", "-", "-", "f", "o", "n", "t", "-",
    "s", "a", "n", "s", ":", " ", "G", "e", "o", "r", "g", "i", "a", ",",
    " ", "s", "e", "r", "i", "f", "\n", "}">>

(* :root{--background:#000000}\n.dark{--background:#ffffff;--ring:banana} *)
cssBothModes ==
  <<":", "r", "o", "o", "t", "{", "-", "-", "b", "a", "c", "k", "g", "r",
    "o", "u", "n", "d", ":", "#", "0", "0", "0", "0", "0", "0", "}", "\n",
    ".", "d", "a", "r", "k", "{", "-", "-", "b", "a", "c", "k", "g", "r",
    "o", "u", "n", "d", ":", "#", "f", "f", "f", "f", "f", "f", ";", "-",
    "-", "r", "i", "n", "g", ":", "b", "a", "n", "a", "n", "a", "}">>

(* --radius: 2rem; *)
cssNoBlock ==
  <<"-", "-", "r", "a", "d", "i", "u", "s", ":", " ", "2", "r", "e", "m",
    ";">>

CssInputs == {cssLightOnly, cssDarkOnly, cssBothModes, cssNoBlock}

(* CssImportDialog.handleImport: the text must be non-empty after trim and *)
(* contain both "--" and ":" before it is handed to onImport.              *)
passesImportValidation(cssText) ==
  /\ trim(cssText) # <<>>
  /\ \E i \in 1..Len(cssText) : StartsWithAt(cssText, i, <<"-", "-">>)
  /\ \E i \in 1..Len(cssText) : cssText[i] = ":"

handleCssImport_ReplacesStyles(css) ==
  LET parsed == parseCssInput(css)
      styles == [themeState.styles EXCEPT
                   !.light = parsed.lightColors,
                   !.dark = parsed.darkColors] IN
  /\ nEdits < MaxEdits
  /\ passesImportValidation(css)
  /\ setThemeState([themeState EXCEPT !.styles = styles])
  /\ last' = Record("handleCssImport", NoArgs)
  /\ nEdits' = nEdits + 1

handleCssImport_LightIntoBoth(css) ==
  LET parsed == parseCssInput(css)
      styles == [themeState.styles EXCEPT
                   !.light = Spread(themeState.styles.light, parsed.lightColors),
                   !.dark = Spread(themeState.styles.dark, parsed.lightColors)] IN
  /\ nEdits < MaxEdits
  /\ passesImportValidation(css)
  /\ setThemeState([themeState EXCEPT !.styles = styles])
  /\ last' = Record("handleCssImport", NoArgs)
  /\ nEdits' = nEdits + 1

(* ActionBar.handleCssImport, reached through CssImportDialog.handleImport *)
handleCssImport(css) ==
  LET parsed == parseCssInput(css)
      styles == [themeState.styles EXCEPT
                   !.light = Spread(themeState.styles.light, parsed.lightColors),
                   !.dark = Spread(themeState.styles.dark, parsed.darkColors)] IN
  /\ nEdits < MaxEdits
  /\ passesImportValidation(css)
  /\ setThemeState([themeState EXCEPT !.styles = styles])
  /\ last' = Record("handleCssImport", NoArgs)
  /\ nEdits' = nEdits + 1

Next ==
  \/ (\E name \in Names : applyThemePreset(name)) /\ UNCHANGED pageVars
  \/ resetToDefault /\ UNCHANGED pageVars
  \/ resetToCurrentPreset /\ UNCHANGED pageVars
  \/ (\E key \in EditKeys : \E value \in EditValues(key) : updateStyle(key, value))
       /\ UNCHANGED pageVars
  \/ (\E css \in CssInputs : handleCssImport(css)) /\ UNCHANGED pageVars
  \/ (\E newMode \in Modes : handleThemeChange(newMode)) /\ UNCHANGED pageVars

Spec == Init /\ [][Next]_vars

(***************************************************************************)
(* parseCssInput as a function of the pasted text.  The texts are built    *)
(* from declarations: up to MaxDeclarations of them, joined by ";", form   *)
(* a body; a body stands alone or inside a block.                         *)
(***************************************************************************)
MaxDeclarations == 2

(* --radius: 1rem *)
declCommon ==
  <<"-", "-", "r", "a", "d", "i", "u", "s", ":", " ", "1", "r", "e", "m">>

(* --primary: #F00 *)
declHex ==
  <<"-", "-", "p", "r", "i", "m", "a", "r", "y", ":", " ", "#", "F", "0",
    "0">>

(* --primary: 0 100% 50% *)
declBareHsl ==
  <<"-", "-", "p", "r", "i", "m", "a", "r", "y", ":", " ", "0", " ", "1",
    "0", "0", "%", " ", "5", "0", "%">>

(* --unknown: 1 *)
declUnknown ==
  <<"-", "-", "u", "n", "k", "n", "o", "w", "n", ":", " ", "1">>

(* --font-sans: 'A:B', serif *)
declColonInValue ==
  <<"-", "-", "f", "o", "n", "t", "-", "s", "a", "n", "s", ":", " ", "'",
    "A", ":", "B", "'", ",", " ", "s", "e", "r", "i", "f">>

(* --ring:banana *)
declNotAColor ==
  <<"-", "-", "r", "i", "n", "g", ":", "b", "a", "n", "a", "n", "a">>

(* --radius: *)
declNoValue ==
  <<"-", "-", "r", "a", "d", "i", "u", "s", ":">>

(* radius: 2rem *)
declNoPrefix ==
  <<"r", "a", "d", "i", "u", "s", ":", " ", "2", "r", "e", "m">>

Declarations ==
  {declCommon, declHex, declBareHsl, declUnknown,
   declColonInValue, declNotAColor, declNoValue, declNoPrefix}

RECURSIVE Bodies(_)
Bodies(n) ==
  IF n = 0 THEN {<<>>}
  ELSE Bodies(n - 1)
         \cup {IF body = <<>> THEN d ELSE body \o <<";", " ">> \o d :
                 body \in Bodies(n - 1), d \in Declarations}

Selectors == {<<":", "r", "o", "o", "t">>, <<".", "d", "a", "r", "k">>,
              <<".", "d", "a", "r", "k", "e", "r">>}

Block(selector, body) == selector \o <<" ", "{">> \o body \o <<"}">>

ParseInputs ==
  Bodies(MaxDeclarations)
    \cup {Block(selector, body) : selector \in Selectors, body \in Bodies(MaxDeclarations)}
    \cup {Block(<<":", "r", "o", "o", "t">>, light) \o <<"\n">>
            \o Block(<<".", "d", "a", "r", "k">>, dark) :
            light \in Bodies(1), dark \in Bodies(1)}

ParseInit ==
  /\ themeState = defaultThemeState(FALSE)
  /\ hasChangedThemeFromDefault = FALSE
  /\ last = [op |-> "init", input |-> <<>>, result |-> parseCssInput(<<>>)]
  /\ nEdits = 0
  /\ PageIdle

parseCssInputCall(input) ==
  /\ last.op = "init"
  /\ last' = [op |-> "parseCssInput", input |-> input,
              result |-> parseCssInput(input)]
  /\ UNCHANGED <<themeState, hasChangedThemeFromDefault, nEdits>>
  /\ UNCHANGED pageVars

ParseNext == \E input \in ParseInputs : parseCssInputCall(input)

ParseSpec == ParseInit /\ [][ParseNext]_vars

(***************************************************************************)
(* generateThemeCode as a function of the editor state and the two         *)
(* preferences.  The states are the default styles and the resolved styles *)
(* of the presets, as they are or after a per-token edit or a CSS import   *)
(* overrode some values, and the states without a light or a dark token    *)
(* set.                                                                    *)
(***************************************************************************)
GeneratorStyles ==
  {defaultStyles} \cup {getPresetThemeStyles(p).value : p \in DOMAIN presets}

(* What an edit or an import overrides, per mode. *)
Override(light, dark) == [light |-> light, dark |-> dark]

Overrides ==
  { Override(EmptyObject, EmptyObject),
    Override("letter-spacing" :> "0.05em", "letter-spacing" :> "0.05em"),
    Override("letter-spacing" :> "0.1em", EmptyObject),
    Override(EmptyObject, "letter-spacing" :> "0.1em"),
    Override("spacing" :> "0.5rem", "spacing" :> "0.5rem"),
    Override("spacing" :> "0.3rem", EmptyObject),
    Override(EmptyObject, "spacing" :> "0.3rem"),
    Override("ring" :> "banana", "shadow-color" :> "banana") }

WithOverride(styles, override) ==
  [light |-> Spread(styles.light, override.light),
   dark |-> Spread(styles.dark, override.dark)]

WellFormedStates ==
  {[styles |-> WithOverride(styles, override), currentMode |-> "light"] :
     styles \in GeneratorStyles, override \in Overrides}

MalformedStates ==
  { [styles |-> [light |-> defaultStyles.light], currentMode |-> "light"],
    [styles |-> [dark |-> defaultStyles.dark], currentMode |-> "light"],
    [styles |-> EmptyObject, currentMode |-> "light"] }

GeneratorStates == WellFormedStates \cup MalformedStates

(* types/index.ts ColorFormat without "oklch", whose conversion is not     *)
(* modelled; the two Tailwind versions.                                    *)
ColorFormats == {"hex", "rgb", "hsl"}

TailwindVersions == {"3", "4"}

CodeInit ==
  /\ themeState = defaultThemeState(FALSE)
  /\ hasChangedThemeFromDefault = FALSE
  /\ last = [op |-> "init"]
  /\ nEdits = 0
  /\ PageIdle

generateThemeCodeCall(themeEditorState, colorFormat, tailwindVersion) ==
  /\ last.op = "init"
  /\ last' = [op |-> "generateThemeCode",
              themeEditorState |-> themeEditorState,
              colorFormat |-> colorFormat,
              tailwindVersion |-> tailwindVersion,
              result |-> generateThemeCode(themeEditorState, colorFormat,
                                           tailwindVersion)]
  /\ UNCHANGED <<themeState, hasChangedThemeFromDefault, nEdits>>
  /\ UNCHANGED pageVars

CodeNext ==
  \E themeEditorState \in GeneratorStates, colorFormat \in ColorFormats,
     tailwindVersion \in TailwindVersions :
    generateThemeCodeCall(themeEditorState, colorFormat, tailwindVersion)

CodeSpec == CodeInit /\ [][CodeNext]_vars


(***************************************************************************)
(* Properties of the preset catalog and the editor store                   *)
(***************************************************************************)
(* C1: getPresetStyles(name) returns exactly the default styles when name  *)
(* is "default" and when name is any string that is not a key of the       *)
(* preset catalog; no name makes it fail.                                  *)
C1_DefaultForUnknownName ==
  last.op = "applyThemePreset" =>
    /\ ~last.threw
    /\ (last.name = "default" \/ last.name \notin DOMAIN presets)
         => themeState.styles = defaultStyles

(* C2: for every catalog preset p, mode m and token key k, the resolved    *)
(* styles hold p.styles[m][k] when the preset defines k for mode m and     *)
(* default[m][k] otherwise; a value defined only for the other mode is     *)
(* not used.                                                               *)
C2_PresetMergePerMode ==
  (last.op = "applyThemePreset" /\ last.name \in DOMAIN presets) =>
    /\ ~last.threw
    /\ \A m \in Modes : \A k \in variableNames :
         themeState.styles[m][k] =
           IF k \in DOMAIN presets[last.name].styles[m]
             THEN presets[last.name].styles[m][k]
             ELSE defaultStyles[m][k]

(* bubblegum sets radius for light only: dark keeps the default radius *)
C2_Witness ==
  /\ last.op = "applyThemePreset"
  /\ last.name = "bubblegum"
  /\ themeState.styles.light["radius"] = "0.4rem"
  /\ themeState.styles.dark["radius"] = "0.625rem"

(* C3: applyPreset(name), for any name, sets themeState.styles to          *)
(* getPresetStyles(name) and themeState.preset to name and leaves          *)
(* currentMode unchanged; hasChangedThemeFromDefault becomes true when     *)
(* name is not "default" and keeps its value when name is "default".       *)
C3_ApplyPresetEffect ==
  [][\A name \in Names : applyThemePreset(name) =>
       /\ themeState'.styles = getPresetThemeStyles(name).value
       /\ themeState'.preset = <<name>>
       /\ themeState'.currentMode = themeState.currentMode
       /\ hasChangedThemeFromDefault' =
            IF name # "default" THEN TRUE ELSE hasChangedThemeFromDefault]_vars

(* C4: hasChangedThemeFromDefault is a one-way latch: once true it stays   *)
(* true after every store operation.                                       *)
C4_FlagIsLatch ==
  [][hasChangedThemeFromDefault => hasChangedThemeFromDefault']_vars

C4_Witness ==
  /\ hasChangedThemeFromDefault
  /\ last.op = "applyThemePreset"
  /\ last.name = "default"

(* C5: resetToDefault(), from any state, replaces themeState.styles with   *)
(* the hard default styles for both modes and leaves currentMode           *)
(* unchanged.                                                              *)
C5_ResetToDefaultEffect ==
  [][resetToDefault =>
       /\ themeState'.styles.light = defaultLightThemeStyles
       /\ themeState'.styles.dark = defaultDarkThemeStyles
       /\ themeState'.currentMode = themeState.currentMode]_vars

C5_Witness ==
  /\ last.op = "resetToDefault"
  /\ last.changed
  /\ themeState.currentMode = "dark"

(* C6 as stated: resetToDefault() does not clear the preset name: after    *)
(* applyPreset(p) followed by resetToDefault(), themeState.preset is       *)
(* still p.                                                                *)
C6_PresetNameKept ==
  [][(last.op = "applyThemePreset" /\ ~last.threw /\ resetToDefault) =>
       themeState'.preset = <<last.name>>]_vars

(* C6 as amended: resetToDefault() clears the preset name: after           *)
(* applyPreset(p) followed by resetToDefault(), themeState.preset is       *)
(* absent.                                                                 *)
C6_PresetNameCleared ==
  [][resetToDefault => themeState'.preset = <<>>]_vars

C6_Witness ==
  /\ last.op = "resetToDefault"
  /\ last.hadPreset

(* C7: resetToCurrentPreset(), from any state, replaces themeState.styles  *)
(* with getPresetStyles(preset ?? "default") and leaves preset and         *)
(* currentMode unchanged.                                                  *)
C7_ResetToCurrentPresetEffect ==
  [][resetToCurrentPreset =>
       LET name == IF themeState.preset = <<>> THEN "default"
                   ELSE themeState.preset[1]
           styles == getPresetThemeStyles(name) IN
       /\ ~styles.threw
       /\ themeState'.styles = styles.value
       /\ themeState'.preset = themeState.preset
       /\ themeState'.currentMode = themeState.currentMode]_vars

C7_Witness ==
  /\ last.op = "resetToCurrentPreset"
  /\ last.changed
  /\ themeState.preset = <<"perpetuity">>

(* C8: a per-token edit of a key in the common set writes the new value    *)
(* into both styles.light and styles.dark whatever currentMode is, so the  *)
(* two modes hold equal values for that key afterwards.                    *)
C8_CommonKeyWritesBothModes ==
  [][\A key \in COMMON_STYLES : \A value \in EditValues(key) :
       updateStyle(key, value) =>
         /\ themeState'.styles.light[key] = value
         /\ themeState'.styles.dark[key] = value]_vars

C8_Witness ==
  /\ last.op = "updateStyle"
  /\ last.key \in COMMON_STYLES
  /\ last.changed
  /\ themeState.currentMode = "dark"

(* C9: a per-token edit of a key that is not in the common set changes     *)
(* that key only in the active mode's token set: the other mode's token    *)
(* set, currentMode and preset are unchanged.                              *)
C9_ColorKeyWritesActiveModeOnly ==
  [][\A key \in EditKeys \ COMMON_STYLES : \A value \in EditValues(key) :
       updateStyle(key, value) =>
         LET mode == themeState.currentMode IN
         /\ themeState'.styles[mode][key] = value
         /\ \A k \in variableNames \ {key} :
              themeState'.styles[mode][k] = themeState.styles[mode][k]
         /\ themeState'.styles[OtherMode(mode)] =
              themeState.styles[OtherMode(mode)]
         /\ themeState'.currentMode = themeState.currentMode
         /\ themeState'.preset = themeState.preset]_vars

C9_Witness ==
  /\ last.op = "updateStyle"
  /\ last.key = "shadow-color"
  /\ themeState.styles.dark["shadow-color"] = "#ff0000"
  /\ themeState.styles.light["shadow-color"] # "#ff0000"

(* C10: in every editor state reachable from the default state through     *)
(* applyPreset, per-token edits, CSS import and the two resets, each       *)
(* common key has the same value in styles.light and styles.dark.          *)
C10_CommonKeysEqualAcrossModes ==
  \A key \in COMMON_STYLES :
    themeState.styles.light[key] = themeState.styles.dark[key]

(* C11: every token set the system produces has exactly the key set of the *)
(* default token set: the resolved styles of every catalogue preset in     *)
(* both modes, and styles.light and styles.dark in every state reachable   *)
(* through applyPreset, per-token edits, CSS import and the two resets.    *)
C11_KeySetIsDefaultKeySet ==
  /\ \A p \in DOMAIN presets : \A m \in Modes :
       /\ ~getPresetThemeStyles(p).threw
       /\ DOMAIN getPresetThemeStyles(p).value[m] = DOMAIN defaultStyles[m]
  /\ \A m \in Modes : DOMAIN themeState.styles[m] = DOMAIN defaultStyles[m]

C11_Witness ==
  /\ last.op = "handleCssImport"
  /\ themeState.preset = <<"kodama-grove">>
  /\ themeState.styles.light["radius"] = "1rem"
  /\ themeState.styles.light["primary"] = "#ff0000"

(* C12: CSS import merges the parsed partial token sets into both modes:   *)
(* in each mode every key of that mode's parsed partial takes the imported *)
(* value and every other key keeps its previous value; currentMode and     *)
(* preset are unchanged.                                                   *)
C12_ImportMergesPartials ==
  [][\A css \in CssInputs :
       handleCssImport(css) =>
         LET parsed == parseCssInput(css)
             partial == [light |-> parsed.lightColors, dark |-> parsed.darkColors] IN
         /\ \A m \in Modes : \A key \in DOMAIN themeState'.styles[m] :
              themeState'.styles[m][key] =
                IF key \in DOMAIN partial[m] THEN partial[m][key]
                ELSE themeState.styles[m][key]
         /\ \A m \in Modes :
              DOMAIN themeState'.styles[m] =
                DOMAIN themeState.styles[m] \cup DOMAIN partial[m]
         /\ themeState'.currentMode = themeState.currentMode
         /\ themeState'.preset = themeState.preset]_vars

C12_Witness ==
  /\ last.op = "handleCssImport"
  /\ themeState.preset = <<"t3-chat">>
  /\ themeState.styles.light["background"] = "#000000"
  /\ themeState.styles.dark["background"] = "#ffffff"
  /\ themeState.styles.dark["ring"] = "banana"
  /\ themeState.styles.light["ring"] = getPresetThemeStyles("t3-chat").value.light["ring"]

(***************************************************************************)
(* Properties of parseCssInput                                             *)
(***************************************************************************)
(* The text a declaration gives its variable: what follows the first ":",  *)
(* without the surrounding white space.                                    *)
declaredValue(declaration) ==
  trim(SubSeq(declaration, FirstIndex(declaration, {":"}, 1) + 1,
              Len(declaration)))

declaredName(declaration) ==
  Str(replaceFirst(trim(SubSeq(declaration, 1,
                               FirstIndex(declaration, {":"}, 1) - 1)),
                   VARIABLE_PREFIX, <<>>))

(* An occurrence of the selector followed, after white space, by "{". *)
hasBlockOpening(input, selector) ==
  \E i \in 1..Len(input) :
    /\ StartsWithAt(input, i, selector)
    /\ SkipSpaces(input, i + Len(selector)) <= Len(input)
    /\ input[SkipSpaces(input, i + Len(selector))] = "{"

(* C14: parseCssInput only ever returns keys from the fixed set of known   *)
(* token keys: a declaration whose name, after the leading "--" is         *)
(* stripped, is no key of the default token set is skipped and appears in  *)
(* neither partial.                                                        *)
C14_OnlyKnownKeys ==
  last.op = "parseCssInput" =>
    /\ DOMAIN last.result.lightColors \subseteq DOMAIN defaultStyles.light
    /\ DOMAIN last.result.darkColors \subseteq DOMAIN defaultStyles.light

C14_Witness ==
  /\ last.op = "parseCssInput"
  /\ last.input = Block(<<":", "r", "o", "o", "t">>,
                        declUnknown \o <<";", " ">> \o declCommon)
  /\ last.result.lightColors = [radius |-> "1rem"]
  /\ last.result.darkColors = EmptyObject

(* C15: parseCssInput returns a pair of partials for any input text, and   *)
(* when the text has no ":root" block (no ".dark" block) the light (dark)  *)
(* partial is empty.                                                       *)
C15_MissingBlockGivesEmptyPartial ==
  last.op = "parseCssInput" =>
    /\ DOMAIN last.result = {"lightColors", "darkColors"}
    /\ ~hasBlockOpening(last.input, <<":", "r", "o", "o", "t">>)
         => last.result.lightColors = EmptyObject
    /\ ~hasBlockOpening(last.input, <<".", "d", "a", "r", "k">>)
         => last.result.darkColors = EmptyObject

C15_Witness ==
  /\ last.op = "parseCssInput"
  /\ last.input = Block(<<".", "d", "a", "r", "k">>, declHex)
  /\ last.result.lightColors = EmptyObject
  /\ last.result.darkColors = [primary |-> "#ff0000"]

(* What C16 expects a partial to hold after the declarations of a block    *)
(* content, in order: the raw declared value for a common key, the hex     *)
(* conversion of the (hsl-wrapped when digit-led) value for a colour key.  *)
RECURSIVE expectedPartial(_, _)
expectedPartial(declarations, target) ==
  IF declarations = <<>> THEN target
  ELSE
    LET name == declaredName(Head(declarations))
        v == declaredValue(Head(declarations))
        wrapped == IF v # <<>> /\ Head(v) \in Digits
                     THEN <<"h", "s", "l", "(">> \o v \o <<")">>
                     ELSE v
        stored == IF name \in COMMON_STYLES THEN Str(v)
                  ELSE colorFormatterHex(wrapped) IN
    expectedPartial(Tail(declarations),
                    IF name \in DOMAIN defaultStyles.light
                      THEN SpreadSet(target, name, stored)
                      ELSE target)

(* C16: for each known declaration parseCssInput extracts, a name in the   *)
(* common/non-colour set stores the raw declared string unmodified, and    *)
(* any other name stores convert(v', "hex"), v' being the declared value   *)
(* wrapped as hsl(...) when it starts with a digit and the declared value  *)
(* itself otherwise.                                                       *)
C16_StoredValueIsDeclaredValue ==
  last.op = "parseCssInput" =>
    LET rootContent == extractCssBlockContent(last.input, <<":", "r", "o", "o", "t">>)
        darkContent == extractCssBlockContent(last.input, <<".", "d", "a", "r", "k">>) IN
    /\ last.result.lightColors =
         expectedPartial(variableDeclarations(rootContent, 1), EmptyObject)
    /\ last.result.darkColors =
         expectedPartial(variableDeclarations(darkContent, 1), EmptyObject)

(***************************************************************************)
(* Properties of generateThemeCode                                         *)
(***************************************************************************)
(* C17: generateThemeCode fails with the error "Invalid theme styles:      *)
(* missing light or dark mode" whenever the styles of the state lack the   *)
(* light key or lack the dark key, and returns no stylesheet then.         *)
C17_MalformedStylesRejected ==
  (/\ last.op = "generateThemeCode"
   /\ \E mode \in Modes : mode \notin DOMAIN last.themeEditorState.styles)
    => last.result = [threw |-> TRUE,
                      value |-> "Invalid theme styles: missing light or dark mode"]

C17_Witness ==
  /\ last.op = "generateThemeCode"
  /\ DOMAIN last.themeEditorState.styles = {"light"}
  /\ last.result.threw

(* Where a text occurs in a stylesheet, and the extent of a rule: from its *)
(* selector to the "}" that closes it.                                     *)
Occurrences(text, pattern) ==
  {i \in 1..Len(text) : StartsWithAt(text, i, pattern)}

ruleOf(code, selector) ==
  LET start == Min(Occurrences(code, selector \o <<" ", "{">>)) IN
  start..FirstIndex(code, {"}"}, start)

rootSelector == <<":", "r", "o", "o", "t">>

darkSelector == <<".", "d", "a", "r", "k">>

spacingName == <<"-", "-", "s", "p", "a", "c", "i", "n", "g", ":">>

trackingNormalName ==
  <<"-", "-", "t", "r", "a", "c", "k", "i", "n", "g", "-", "n", "o", "r",
    "m", "a", "l", ":">>

(* The line "\n  <name> <value>;" stands at index i - 3. *)
isLineAt(code, i, name, value) ==
  /\ i > 3
  /\ StartsWithAt(code, i - 3,
                  <<"\n", " ", " ">> \o name \o <<" ">> \o Chars[value] \o <<";">>)

bodyRule ==
  <<"\n", "\n", "b", "o", "d", "y", " ", "{", "\n", " ", " ", "l", "e",
    "t", "t", "e", "r", "-", "s", "p", "a", "c", "i", "n", "g", ":", " ",
    "v", "a", "r", "(", "-", "-", "t", "r", "a", "c", "k", "i", "n", "g",
    "-", "n", "o", "r", "m", "a", "l", ")", ";", "\n", "}">>

trackingScaleNames ==
  { <<"-", "-", "t", "r", "a", "c", "k", "i", "n", "g", "-", "t", "i", "g",
      "h", "t", "e", "r", ":">>,
    <<"-", "-", "t", "r", "a", "c", "k", "i", "n", "g", "-", "t", "i", "g",
      "h", "t", ":">>,
    <<"-", "-", "t", "r", "a", "c", "k", "i", "n", "g", "-", "w", "i", "d",
      "e", ":">>,
    <<"-", "-", "t", "r", "a", "c", "k", "i", "n", "g", "-", "w", "i", "d",
      "e", "r", ":">>,
    <<"-", "-", "t", "r", "a", "c", "k", "i", "n", "g", "-", "w", "i", "d",
      "e", "s", "t", ":">> }

trackingNormalReference ==
  <<"v", "a", "r", "(", "-", "-", "t", "r", "a", "c", "k", "i", "n", "g",
    "-", "n", "o", "r", "m", "a", "l", ")">>

(* C19: the trailing body rule is emitted exactly when the light           *)
(* letter-spacing is not the default, and so are, for Tailwind version 4,  *)
(* the tracking-scale variables (version 3 never has them); hence a        *)
(* stylesheet that refers to var(--tracking-normal) declares               *)
(* --tracking-normal, with the light letter-spacing, in its :root block.   *)
C19_TrackingReferencedOnlyWhenDeclared ==
  (last.op = "generateThemeCode" /\ ~last.result.threw) =>
    LET code == last.result.value
        light == last.themeEditorState.styles.light
        nonDefault ==
          light["letter-spacing"] # defaultStyles.light["letter-spacing"]
        hasBodyRule ==
          /\ Len(code) >= Len(bodyRule)
          /\ StartsWithAt(code, Len(code) - Len(bodyRule) + 1, bodyRule)
        scaleEmitted(name) == Occurrences(code, name) # {} IN
    /\ hasBodyRule <=> nonDefault
    /\ Occurrences(code, <<"b", "o", "d", "y">>) # {} => hasBodyRule
    /\ \A name \in trackingScaleNames :
         scaleEmitted(name) <=> (nonDefault /\ last.tailwindVersion = "4")
    /\ Occurrences(code, trackingNormalReference) # {}
         => \E i \in ruleOf(code, rootSelector) :
              isLineAt(code, i, trackingNormalName, light["letter-spacing"])

C19_Witness ==
  /\ last.op = "generateThemeCode"
  /\ ~last.result.threw
  /\ last.tailwindVersion = "4"
  /\ last.themeEditorState.styles.light["letter-spacing"] = "0.05em"
  /\ Occurrences(last.result.value, bodyRule) # {}
  /\ Occurrences(last.result.value, trackingNormalReference) # {}

(* The value of the variable in a rule: what stands between                *)
(* "\n  --<name>: " and the next ";".                                      *)
valueIn(code, lines, name) ==
  LET line == <<"\n", " ", " ", "-", "-">> \o Chars[name] \o <<":", " ">>
      start == Min({i \in lines : StartsWithAt(code, i, line)}) + Len(line) IN
  SubSeq(code, start, FirstIndex(code, {";"}, start) - 1)

(* Where the lines of a rule begin. *)
linesOf(code, rule) == {i \in rule : code[i] = "\n"}

selectorOf(mode) == IF mode = "dark" THEN darkSelector ELSE rootSelector

shadowValues(code, mode) ==
  LET lines == linesOf(code, ruleOf(code, selectorOf(mode))) IN
  [i \in 1..Len(shadowNames) |-> valueIn(code, lines, shadowNames[i])]

(* The colours of a shadow value, each hsl(<inside> / <opacity>): the      *)
(* insides.                                                                *)
shadowColorInsides(value) ==
  {SubSeq(value, i + 4, FirstIndex(value, {"/"}, i) - 2) :
     i \in Occurrences(value, <<"h", "s", "l", "(">>)}

(* <h> <s>% <l>%: three numbers and nothing else. *)
isBareTriplet(text) ==
  LET spaces == {i \in 1..Len(text) : text[i] = " "}
      percents == {i \in 1..Len(text) : text[i] = "%"} IN
  /\ Cardinality(spaces) = 2
  /\ Min(spaces) > 1
  /\ percents = {i - 1 : i \in spaces \ {Min(spaces)}} \cup {Len(text)}
  /\ \A i \in 1..Len(text) :
       i \notin spaces \cup percents => text[i] \in Digits \cup {"."}

(* C20: for a fixed theme state the eight --shadow-* values of each block  *)
(* are the same for every colour format and Tailwind version; and the      *)
(* colour of a shadow, when the shadow-color token is a colour, is the     *)
(* bare triplet h s% l% of the version 3 dialect inside hsl(... / opacity).*)
C20_ShadowsIndependentOfFormat ==
  (last.op = "generateThemeCode" /\ ~last.result.threw) =>
    \A mode \in Modes :
      \A shadows \in {shadowValues(last.result.value, mode)} :
        LET themeStyles == last.themeEditorState.styles
            shadowColor == themeStyles[mode]["shadow-color"] IN
        /\ \A colorFormat \in ColorFormats, tailwindVersion \in TailwindVersions :
             \A block \in {generateThemeVariables(themeStyles, mode, colorFormat,
                                                   tailwindVersion)} :
               shadowValues(block, mode) = shadows
        /\ culoriParse(Chars[shadowColor]) # NoColor =>
             \A i \in 1..Len(shadowNames) :
               /\ Cardinality(Occurrences(shadows[i], <<"h", "s", "l", "(">>))
                    \in {1, 2}
               /\ \A inside \in shadowColorInsides(shadows[i]) :
                    /\ isBareTriplet(inside)
                    /\ inside = colorFormatter(Chars[shadowColor], "hsl", "3")

(* A stylesheet in hex for Tailwind 4 of a preset whose shadow colour is a  *)
(* hex value: the shadows still hold a triplet.                            *)
C20_Witness ==
  /\ last.op = "generateThemeCode"
  /\ ~last.result.threw
  /\ last.colorFormat = "hex"
  /\ last.tailwindVersion = "4"
  /\ last.themeEditorState.styles.dark["shadow-color"] = "#324859"
  /\ \A inside \in shadowColorInsides(shadowValues(last.result.value, "dark")[1]) :
       isBareTriplet(inside)

(***************************************************************************)
(* The generated stylesheet, imported                                      *)
(***************************************************************************)
(* C13: parseCssInput, given the stylesheet generateThemeCode produced     *)
(* with the colour format "hex", yields for every colour token of each     *)
(* mode the value the stylesheet declares for it, which is the hex form of *)
(* the token.                                                              *)
C13_HexRoundTrip ==
  (/\ last.op = "generateThemeCode"
   /\ ~last.result.threw
   /\ last.colorFormat = "hex") =>
    \A code \in {last.result.value} :
      \A parsed \in {parseCssInput(code)} :
        \A mode \in Modes :
          LET lines == linesOf(code, ruleOf(code, selectorOf(mode)))
              partial == IF mode = "light" THEN parsed.lightColors
                         ELSE parsed.darkColors
              styles == last.themeEditorState.styles[mode] IN
          \A i \in 1..Len(colorVariableNames) :
            LET name == colorVariableNames[i]
                emitted == valueIn(code, lines, name) IN
            /\ emitted = colorFormatter(Chars[styles[name]], "hex",
                                        last.tailwindVersion)
            /\ name \in DOMAIN partial
            /\ partial[name] = Str(emitted)

(* A preset with an override, for Tailwind 4: the tokens were hsl and hex  *)
(* values, the stylesheet has further blocks after .dark.                  *)
C13_Witness ==
  /\ last.op = "generateThemeCode"
  /\ ~last.result.threw
  /\ last.colorFormat = "hex"
  /\ last.tailwindVersion = "4"
  /\ last.themeEditorState.styles.light["letter-spacing"] = "0.05em"
  /\ last.themeEditorState.styles.light["primary"] = "#d04f99"
  /\ parseCssInput(last.result.value).lightColors["primary"] = "#d04f99"
  /\ parseCssInput(last.result.value).darkColors["primary"] = "#fbe2a7"

(***************************************************************************)
(* setShadowVariables (utils/shadows.ts) and its inputs                    *)
(***************************************************************************)
(* The shadow tokens the shadow controls of the editor can leave in a mode. *)
ShadowTokenSets ==
  { "shadow-color" :> color @@ "shadow-opacity" :> opacity
      @@ "shadow-blur" :> blur @@ "shadow-spread" :> spread
      @@ "shadow-offset-x" :> offsetX @@ "shadow-offset-y" :> offsetY :
    color \in {"hsl(0 0% 0%)", "#324859", "hsl(240 30% 25%)"},
    opacity \in {"0.1", "0.15", "0.5", "1.0"},
    blur \in {"0px", "6px"},
    spread \in {"0px", "2px", "4px"},
    offsetX \in {"0px", "3px"},
    offsetY \in {"1px", "4px"} }

(* Theme states whose current mode holds the tokens, the other mode the    *)
(* defaults; and states whose current mode holds no token at all.          *)
ShadowStates ==
  {[styles |-> [defaultStyles EXCEPT ![mode] = Spread(@, tokens)],
    currentMode |-> mode] : tokens \in ShadowTokenSets, mode \in {"light", "dark"}}
    \cup {[styles |-> [defaultStyles EXCEPT ![mode] = EmptyObject],
           currentMode |-> mode] : mode \in {"light", "dark"}}

ShadowInit ==
  /\ themeState = defaultThemeState(FALSE)
  /\ hasChangedThemeFromDefault = FALSE
  /\ last = [op |-> "init"]
  /\ nEdits = 0
  /\ PageIdle

setShadowVariables(themeEditorState) ==
  /\ last.op = "init"
  /\ last' = [op |-> "getShadowMap",
              themeEditorState |-> themeEditorState,
              result |-> getShadowMap(themeEditorState)]
  /\ UNCHANGED <<themeState, hasChangedThemeFromDefault, nEdits>>
  /\ UNCHANGED pageVars

ShadowNext ==
  \E themeEditorState \in ShadowStates : setShadowVariables(themeEditorState)

ShadowSpec == ShadowInit /\ [][ShadowNext]_vars

(***************************************************************************)
(* Properties of getShadowMap                                              *)
(***************************************************************************)
(* The tokens getShadowMap reads: those of the current mode, the defaults  *)
(* of that mode where it has none.                                         *)
shadowTokens(themeEditorState) ==
  LET mode == themeEditorState.currentMode IN
  [key \in DOMAIN defaultStyles[mode] |->
     IF key \in DOMAIN themeEditorState.styles[mode]
       THEN themeEditorState.styles[mode][key]
       ELSE defaultStyles[mode][key]]

(* A number with an optional sign and at most two decimals, in hundredths. *)
signedHundredths(s) ==
  IF s # <<>> /\ Head(s) = "-" THEN 0 - Hundredths(Tail(s)) ELSE Hundredths(s)

(* fields is one term "offset-x offset-y blur spread hsl(colour / o)" cut  *)
(* at its spaces, with o the opacity times tenths / 10 to two decimals.    *)
isShadowTerm(fields, offsetX, offsetY, blur, spread, colour, opacity, tenths) ==
  LET n == Len(fields)
      alpha == fields[n] IN
  /\ n >= 7
  /\ fields[1] = offsetX
  /\ fields[2] = offsetY
  /\ fields[3] = blur
  /\ fields[4] = spread
  /\ SubSeq(fields, 5, n - 2) = Components(<<"h", "s", "l", "(">> \o colour)
  /\ fields[n - 1] = <<"/">>
  /\ Len(alpha) = 5
  /\ alpha[2] = "." /\ alpha[5] = ")"
  /\ IsDecimal(SubSeq(alpha, 1, 4))
  /\ 10 * Hundredths(SubSeq(alpha, 1, 4)) - opacity * tenths \in -5..5

(* The fixed (offset-y, blur) pair of the second term of a size. *)
secondLayerPair ==
  "shadow-sm" :> <<<<"1", "p", "x">>, <<"2", "p", "x">>>>
    @@ "shadow" :> <<<<"1", "p", "x">>, <<"2", "p", "x">>>>
    @@ "shadow-md" :> <<<<"2", "p", "x">>, <<"4", "p", "x">>>>
    @@ "shadow-lg" :> <<<<"4", "p", "x">>, <<"6", "p", "x">>>>
    @@ "shadow-xl" :> <<<<"8", "p", "x">>, <<"1", "0", "p", "x">>>>

(* The opacity factor of a one-term size, in tenths. *)
singleLayerFactor ==
  "shadow-2xs" :> 5 @@ "shadow-xs" :> 5 @@ "shadow-2xl" :> 25

(* C21: getShadowMap returns exactly the eight entries shadow-2xs to       *)
(* shadow-2xl, computed from the tokens of the given mode: 2xs, xs and 2xl *)
(* are one term "offset-x offset-y blur spread color" with the opacity     *)
(* times 0.5, 0.5 and 2.5; sm, shadow, md, lg and xl are that term at      *)
(* factor 1.0, then ", " and a second term with the same offset-x, the     *)
(* fixed (offset-y, blur) pair of the size, the base spread minus 1 in px, *)
(* and factor 1.0.                                                         *)
C21_ShadowMapEntries ==
  last.op = "getShadowMap" =>
    \A tokens \in {shadowTokens(last.themeEditorState)} :
      LET offsetX == Chars[tokens["shadow-offset-x"]]
          offsetY == Chars[tokens["shadow-offset-y"]]
          blur == Chars[tokens["shadow-blur"]]
          spread == Chars[tokens["shadow-spread"]]
          colour == colorFormatter(Chars[tokens["shadow-color"]], "hsl", "3")
          opacity == Hundredths(Chars[tokens["shadow-opacity"]])
          first(fields, tenths) ==
            isShadowTerm(fields, offsetX, offsetY, blur, spread, colour,
                         opacity, tenths) IN
      /\ DOMAIN last.result
           = {"shadow-2xs", "shadow-xs", "shadow-sm", "shadow", "shadow-md",
              "shadow-lg", "shadow-xl", "shadow-2xl"}
      /\ \A name \in DOMAIN singleLayerFactor :
           /\ Occurrences(last.result[name], <<",">>) = {}
           /\ first(Components(last.result[name]), singleLayerFactor[name])
      /\ \A name \in DOMAIN secondLayerPair :
           \A value \in {last.result[name]} :
             \A comma \in {FirstIndex(value, {","}, 1)} :
               /\ Cardinality(Occurrences(value, <<",">>)) = 1
               /\ value[comma + 1] = " "
               /\ first(Components(SubSeq(value, 1, comma - 1)), 10)
               /\ \A fields \in {Components(SubSeq(value, comma + 2, Len(value)))} :
                    /\ isShadowTerm(fields, offsetX,
                                    secondLayerPair[name][1],
                                    secondLayerPair[name][2],
                                    fields[4], colour, opacity, 10)
                    /\ Len(fields[4]) > 2
                    /\ SubSeq(fields[4], Len(fields[4]) - 1, Len(fields[4]))
                         = <<"p", "x">>
                    /\ signedHundredths(SubSeq(fields[4], 1, Len(fields[4]) - 2))
                         = Hundredths(SubSeq(spread, 1, Len(spread) - 2)) - 100

(* The dark mode holds a spread of 2px and an opacity of 0.15, the light   *)
(* mode the defaults: the dark tokens are the ones in the map.             *)
C21_Witness ==
  /\ last.op = "getShadowMap"
  /\ last.themeEditorState.currentMode = "dark"
  /\ "shadow-spread" \in DOMAIN last.themeEditorState.styles.dark
  /\ last.themeEditorState.styles.dark["shadow-spread"] = "2px"
  /\ last.themeEditorState.styles.dark["shadow-opacity"] = "0.15"
  /\ last.themeEditorState.styles.dark["shadow-color"] = "#324859"
  /\ last.themeEditorState.styles.dark["shadow-offset-x"] = "3px"
  /\ last.themeEditorState.styles.dark["shadow-offset-y"] = "4px"
  /\ last.themeEditorState.styles.dark["shadow-blur"] = "6px"
  /\ Str(last.result["shadow-2xs"]) = "3px 4px 6px 2px hsl(206.15 28.06% 27.25% / 0.07)"
  /\ Str(last.result["shadow-md"])
       = "3px 4px 6px 2px hsl(206.15 28.06% 27.25% / 0.15), 3px 2px 4px 1px hsl(206.15 28.06% 27.25% / 0.15)"

(***************************************************************************)
(* colorFormatter (utils/color-converter.ts) and its inputs                *)
(***************************************************************************)
(* The colours of the default and preset token sets. *)
CatalogueColors ==
  {Chars[styles[mode][colorVariableNames[i]]] :
     styles \in GeneratorStyles, mode \in {"light", "dark"},
     i \in 1..Len(colorVariableNames)}

(* Texts that are no colour: what an import or a mistyped field can leave  *)
(* in a colour token.                                                      *)
NonColors ==
  { <<>>,
    <<"b", "a", "n", "a", "n", "a">>,
    <<"#", "1", "2">>,
    <<"#", "g", "g", "g">>,
    <<"h", "s", "l", "(", "b", "a", "n", "a", "n", "a", ")">>,
    <<"h", "s", "l", "(", "0", " ", "0", "%", ")">>,
    Chars["0.625rem"],
    Chars["0px"] }

(* types/index.ts ColorFormat *)
AllColorFormats == ColorFormats \cup {"oklch"}

ConvertInit ==
  /\ themeState = defaultThemeState(FALSE)
  /\ hasChangedThemeFromDefault = FALSE
  /\ last = [op |-> "init"]
  /\ nEdits = 0
  /\ PageIdle

(* formatColor: one call of colorFormatter *)
formatColor(colorValue, format, tailwindVersion) ==
  /\ last.op = "init"
  /\ last' = [op |-> "colorFormatter",
              colorValue |-> colorValue,
              format |-> format,
              tailwindVersion |-> tailwindVersion,
              result |-> colorFormatter(colorValue, format, tailwindVersion)]
  /\ UNCHANGED <<themeState, hasChangedThemeFromDefault, nEdits>>
  /\ UNCHANGED pageVars

ConvertNext ==
  \E tailwindVersion \in TailwindVersions :
    \/ \E colorValue \in CatalogueColors, format \in ColorFormats :
         formatColor(colorValue, format, tailwindVersion)
    \/ \E colorValue \in NonColors, format \in AllColorFormats :
         formatColor(colorValue, format, tailwindVersion)

ConvertSpec == ConvertInit /\ [][ConvertNext]_vars

(***************************************************************************)
(* Properties of colorFormatter                                            *)
(***************************************************************************)
(* C22: colorFormatter never raises to its caller: for a colour literal    *)
(* that cannot be parsed it returns the literal unchanged, for every       *)
(* target format and style version.                                        *)
C22_UnparseablePassedThrough ==
  (last.op = "colorFormatter" /\ last.colorValue \in NonColors) =>
    last.result = last.colorValue

(* A text that is no colour, asked for as oklch. *)
C22_Witness ==
  /\ last.op = "colorFormatter"
  /\ last.colorValue = <<"b", "a", "n", "a", "n", "a">>
  /\ last.format = "oklch"
  /\ last.tailwindVersion = "4"
  /\ Str(last.result) = "banana"

(* C23: for every valid colour c, colorFormatter(c, "hsl", "4") is         *)
(* "hsl(" + colorFormatter(c, "hsl", "3") + ")": version "3" gives the     *)
(* bare triplet "H S% L%" with no hsl( wrapper, version "4" the same       *)
(* numbers wrapped in hsl(...).                                            *)
C23_HslDialects ==
  (/\ last.op = "colorFormatter"
   /\ last.format = "hsl"
   /\ last.colorValue \in CatalogueColors) =>
    \A bare \in {colorFormatter(last.colorValue, "hsl", "3")} :
      \A parts \in {Components(bare)} :
        /\ Len(parts) = 3
        /\ bare = parts[1] \o <<" ">> \o parts[2] \o <<" ">> \o parts[3]
        /\ IsDecimal(parts[1])
        /\ IsPercentage(parts[2])
        /\ IsPercentage(parts[3])
        /\ last.tailwindVersion = "3" => last.result = bare
        /\ last.tailwindVersion = "4" =>
             last.result = <<"h", "s", "l", "(">> \o bare \o <<")">>

(* A hex colour whose hue, saturation and lightness all have decimals,     *)
(* for version 4.                                                          *)
C23_Witness ==
  /\ last.op = "colorFormatter"
  /\ last.format = "hsl"
  /\ last.tailwindVersion = "4"
  /\ Str(last.colorValue) = "#d04f99"
  /\ Str(last.result) = "hsl(325.58 57.85% 56.27%)"
  /\ Str(colorFormatter(last.colorValue, "hsl", "3")) = "325.58 57.85% 56.27%"

(* C24: conversion to hex is idempotent: for every valid colour c,         *)
(* colorFormatter(colorFormatter(c, "hex"), "hex") is                      *)
(* colorFormatter(c, "hex").                                               *)
C24_HexIdempotent ==
  (/\ last.op = "colorFormatter"
   /\ last.format = "hex"
   /\ last.colorValue \in CatalogueColors) =>
    /\ culoriParse(last.result) # NoColor
    /\ \A tailwindVersion \in TailwindVersions :
         colorFormatter(last.result, "hex", tailwindVersion) = last.result

(* An hsl literal: the first conversion changes the text, the second does  *)
(* not.                                                                    *)
C24_Witness ==
  /\ last.op = "colorFormatter"
  /\ last.format = "hex"
  /\ Str(last.colorValue) = "hsl(0 0% 14.5%)"
  /\ Str(last.result) = "#252525"
  /\ Str(colorFormatter(last.result, "hex", "3")) = "#252525"

(***************************************************************************)
(* utils/contrast-checker.ts                                               *)
(***************************************************************************)
(* culori's sRGB transfer function on the channel n / 255, n = 0..255:     *)
(* c / 12.92 up to 0.04045, ((c + 0.055) / 1.055) ^ 2.4 above; in units of *)
(* 10^-8, entry n + 1 for channel n.                                       *)
LinearChannel ==
  <<    0, 30353, 60705, 91058, 121411, 151763, 182116, 212469,
      242822, 273174, 303527, 334654, 367651, 402472, 439144, 477695,
      518152, 560539, 604883, 651209, 699541, 749903, 802319, 856813,
      913406, 972122, 1032982, 1096009, 1161225, 1228649, 1298303, 1370208,
      1444384, 1520851, 1599629, 1680738, 1764195, 1850022, 1938236, 2028856,
      2121901, 2217388, 2315337, 2415763, 2518686, 2624122, 2732089, 2842604,
      2955683, 3071344, 3189603, 3310477, 3433981, 3560131, 3688945, 3820437,
      3954624, 4091520, 4231141, 4373503, 4518620, 4666509, 4817182, 4970657,
      5126946, 5286065, 5448028, 5612849, 5780543, 5951124, 6124605, 6301002,
      6480327, 6662594, 6847817, 7036010, 7227185, 7421357, 7618538, 7818742,
      8021982, 8228271, 8437621, 8650046, 8865559, 9084171, 9305896, 9530747,
      9758735, 9989873, 10224173, 10461648, 10702310, 10946171, 11193243, 11443537,
      11697067, 11953843, 12213877, 12477182, 12743768, 13013648, 13286832, 13563333,
      13843162, 14126329, 14412847, 14702727, 14995979, 15292615, 15592646, 15896084,
      16202938, 16513219, 16826940, 17144110, 17464740, 17788842, 18116424, 18447499,
      18782077, 19120168, 19461783, 19806932, 20155625, 20507874, 20863687, 21223076,
      21586050, 21952620, 22322796, 22696587, 23074005, 23455058, 23839757, 24228112,
      24620133, 25015828, 25415209, 25818285, 26225066, 26635560, 27049779, 27467731,
      27889426, 28314874, 28744084, 29177065, 29613827, 30054379, 30498731, 30946892,
      31398871, 31854678, 32314321, 32777810, 33245154, 33716362, 34191442, 34670406,
      35153260, 35640014, 36130678, 36625260, 37123768, 37626212, 38132601, 38642943,
      39157248, 39675523, 40197778, 40724021, 41254261, 41788507, 42326767, 42869050,
      43415364, 43965717, 44520119, 45078578, 45641102, 46207700, 46778380, 47353150,
      47932018, 48514994, 49102085, 49693300, 50288646, 50888132, 51491767, 52099557,
      52711513, 53327640, 53947949, 54572446, 55201140, 55834039, 56471151, 57112483,
      57758044, 58407842, 59061884, 59720179, 60382734, 61049557, 61720656, 62396039,
      63075714, 63759687, 64447968, 65140564, 65837482, 66538730, 67244316, 67954247,
      68668531, 69387176, 70110189, 70837578, 71569350, 72305513, 73046074, 73791041,
      74540421, 75294222, 76052450, 76815115, 77582222, 78353779, 79129794, 79910274,
      80695226, 81484657, 82278575, 83076988, 83879901, 84687323, 85499261, 86315721,
      87136712, 87962240, 88792312, 89626935, 90466117, 91309865, 92158186, 93011086,
      93868573, 94730654, 95597335, 96468625, 97344529, 98225055, 99110210, 100000000 >>

(* culori.wcagLuminance of a colour with whole channels, in units of       *)
(* 10^-8: 0.2126 r + 0.7152 g + 0.0722 b of the linear channels.  The      *)
(* products are taken on the two halves of each channel value to stay      *)
(* within 32 bits.                                                         *)
wcagLuminance(color) ==
  LET high(n) == LinearChannel[n + 1] \div 10000
      low(n) == LinearChannel[n + 1] % 10000 IN
  2126 * high(color.r) + 7152 * high(color.g) + 722 * high(color.b)
    + RoundDiv(2126 * low(color.r) + 7152 * low(color.g) + 722 * low(color.b),
               10000)

(* getLuminance: 0 for a text that is no colour.  An hsl literal is taken  *)
(* at its channels rounded to 0..255, which is exact for the hex literals  *)
(* only.                                                                   *)
getLuminance(colorValue) ==
  LET luminance(color) ==
        IF color = NoColor THEN 0 ELSE wcagLuminance(converterRgb(color)) IN
  ByValue(luminance, culoriParse(colorValue))

(* getContrastRatio with the two luminances swapped into place by position *)
(* instead of by size: (lum1 + 0.05) / (lum2 + 0.05).                      *)
getContrastRatio_ByPosition(color1, color2) ==
  LET ratio(lum1, lum2) ==
        LET dividend == lum1 + 5000000
            divisor == lum2 + 5000000
            tenths == 10 * (dividend % divisor)
            hundredths == 10 * (tenths % divisor) IN
        toFixed2(100 * (dividend \div divisor) + 10 * (tenths \div divisor)
                   + (hundredths \div divisor)
                   + (IF 2 * (hundredths % divisor) >= divisor THEN 1 ELSE 0))
      ofFirst(lum1) ==
        ByValue(LAMBDA lum2 : ratio(lum1, lum2), getLuminance(color2)) IN
  ByValue(ofFirst, getLuminance(color1))

(* getContrastRatio: (max + 0.05) / (min + 0.05), the quotient by long     *)
(* division to two decimals and rounded on the remainder, as toFixed(2).   *)
getContrastRatio(color1, color2) ==
  LET ratio(lum1, lum2) ==
        LET dividend == (IF lum1 >= lum2 THEN lum1 ELSE lum2) + 5000000
            divisor == (IF lum1 >= lum2 THEN lum2 ELSE lum1) + 5000000
            tenths == 10 * (dividend % divisor)
            hundredths == 10 * (tenths % divisor) IN
        toFixed2(100 * (dividend \div divisor) + 10 * (tenths \div divisor)
                   + (hundredths \div divisor)
                   + (IF 2 * (hundredths % divisor) >= divisor THEN 1 ELSE 0))
      ofFirst(lum1) ==
        ByValue(LAMBDA lum2 : ratio(lum1, lum2), getLuminance(color2)) IN
  ByValue(ofFirst, getLuminance(color1))

(* The token pairs whose contrast the editor shows: a foreground token and *)
(* the token it is drawn on.                                               *)
ContrastTokenPairs ==
  { <<"foreground", "background">>, <<"card-foreground", "card">>,
    <<"popover-foreground", "popover">>, <<"primary-foreground", "primary">>,
    <<"secondary-foreground", "secondary">>, <<"muted-foreground", "muted">>,
    <<"accent-foreground", "accent">>,
    <<"destructive-foreground", "destructive">>,
    <<"sidebar-foreground", "sidebar">>,
    <<"sidebar-primary-foreground", "sidebar-primary">>,
    <<"sidebar-accent-foreground", "sidebar-accent">> }

IsHexLiteral(s) == s # <<>> /\ Head(s) = "#" /\ parseHex(s) # NoColor

(* The colour pairs of the default and preset token sets that are hex      *)
(* literals, either way round; black and white; every colour with itself;  *)
(* and pairs with a text that is no colour.                                *)
ContrastPairs ==
  LET black == Chars["#000000"]
      white == Chars["#ffffff"]
      tokens ==
        {<<Chars[styles[mode][pair[1]]], Chars[styles[mode][pair[2]]]>> :
           styles \in GeneratorStyles, mode \in {"light", "dark"},
           pair \in ContrastTokenPairs} IN
  {pair \in tokens : IsHexLiteral(pair[1]) /\ IsHexLiteral(pair[2])}
    \cup {<<pair[2], pair[1]>> : pair \in
             {pair \in tokens : IsHexLiteral(pair[1]) /\ IsHexLiteral(pair[2])}}
    \cup {<<black, white>>, <<white, black>>}
    \cup {<<color, color>> : color \in CatalogueColors}
    \cup {<<<<"b", "a", "n", "a", "n", "a">>, white>>,
           <<black, <<"b", "a", "n", "a", "n", "a">>>>}

ContrastInit ==
  /\ themeState = defaultThemeState(FALSE)
  /\ hasChangedThemeFromDefault = FALSE
  /\ last = [op |-> "init"]
  /\ nEdits = 0
  /\ PageIdle

(* One pair of the calculation of useContrastChecker. *)
checkContrast(foreground, background) ==
  /\ last.op = "init"
  /\ last' = [op |-> "getContrastRatio",
              color1 |-> foreground,
              color2 |-> background,
              result |-> getContrastRatio(foreground, background)]
  /\ UNCHANGED <<themeState, hasChangedThemeFromDefault, nEdits>>
  /\ UNCHANGED pageVars

ContrastNext ==
  \E pair \in ContrastPairs : checkContrast(pair[1], pair[2])

ContrastSpec == ContrastInit /\ [][ContrastNext]_vars

(***************************************************************************)
(* Properties of getContrastRatio                                          *)
(***************************************************************************)
(* C25: getContrastRatio("#000000", "#ffffff") is "21.00" and             *)
(* getContrastRatio(c, c) is "1.00" for every valid colour c; the ratio is *)
(* (max(L1, L2) + 0.05) / (min(L1, L2) + 0.05) printed with two decimals:  *)
(* the printed value times the smaller term is the larger term, to within  *)
(* the rounding of the second decimal.                                     *)
C25_ContrastRatio ==
  last.op = "getContrastRatio" =>
    \A lum1 \in {getLuminance(last.color1)}, lum2 \in {getLuminance(last.color2)} :
      LET larger == ((IF lum1 >= lum2 THEN lum1 ELSE lum2) + 5000000) \div 10
          smaller == ((IF lum1 >= lum2 THEN lum2 ELSE lum1) + 5000000) \div 10
          text == last.result
          value == Hundredths(text)
          slack == (smaller \div 2) + value + 100 IN
      /\ Len(text) >= 4
      /\ text[Len(text) - 2] = "."
      /\ IsDecimal(text)
      /\ value * smaller <= 100 * larger + slack
      /\ 100 * larger <= value * smaller + slack
      /\ (last.color1 = Chars["#000000"] /\ last.color2 = Chars["#ffffff"]) =>
           Str(text) = "21.00"
      /\ (last.color1 = last.color2 /\ last.color1 \in CatalogueColors) =>
           Str(text) = "1.00"

(* Black on white. *)
C25_Witness ==
  /\ last.op = "getContrastRatio"
  /\ Str(last.color1) = "#000000"
  /\ Str(last.color2) = "#ffffff"
  /\ Str(last.result) = "21.00"

(***************************************************************************)
(* useThemePresetFromUrl (hooks/use-theme-preset-from-url.ts), called by   *)
(* ThemeProvider                                                           *)
(***************************************************************************)
(* What the theme= parameter of a link can hold: nothing, or a name. *)
ThemeParams == {<<>>} \cup {<<name>> : name \in Names}

(* The first load: the store holds its defaults and the effect is due. *)
UrlInit ==
  /\ \E prefersDark \in BOOLEAN : themeState = defaultThemeState(prefersDark)
  /\ hasChangedThemeFromDefault = FALSE
  /\ last = [op |-> "init", name |-> "", key |-> "", threw |-> FALSE,
             hadPreset |-> FALSE, changed |-> FALSE]
  /\ nEdits = 0
  /\ \E param \in ThemeParams : loadedParam = param /\ themeParam = param
  /\ effectPending = TRUE
  /\ hookCalls = <<>>
  /\ ToastIdle
  /\ DebounceIdle

(* A later load of the page from a link: the store is the persisted one. *)
loadPage(param) ==
  /\ ~effectPending
  /\ loadedParam' = param
  /\ themeParam' = param
  /\ effectPending' = TRUE
  /\ hookCalls' = <<>>
  /\ UNCHANGED <<storeVars, toastVars, debounceVars>>

(* The effect of useThemePresetFromUrl.  It runs after the first render    *)
(* and after a render in which preset changed.  A throw of                 *)
(* applyThemePreset ends it before setPreset(null).                        *)
useThemePresetFromUrl ==
  /\ effectPending
  /\ IF themeParam # <<>> /\ themeParam[1] # ""
       THEN /\ applyThemePreset(themeParam[1])
            /\ hookCalls' = Append(hookCalls, themeParam[1])
            /\ IF getPresetThemeStyles(themeParam[1]).threw
                 THEN themeParam' = themeParam /\ effectPending' = FALSE
                 ELSE themeParam' = <<>> /\ effectPending' = TRUE
       ELSE /\ effectPending' = FALSE
            /\ UNCHANGED <<storeVars, themeParam, hookCalls>>
  /\ UNCHANGED <<loadedParam, toastVars, debounceVars>>

UrlNext ==
  \/ useThemePresetFromUrl
  \/ \E param \in ThemeParams : loadPage(param)

UrlSpec == UrlInit /\ [][UrlNext]_vars

(***************************************************************************)
(* Properties of useThemePresetFromUrl                                     *)
(***************************************************************************)
(* C26: when the page loads with a theme=<presetName> parameter,           *)
(* applyThemePreset(presetName) is called exactly once for it and the      *)
(* parameter is then removed from the URL; when there is no theme          *)
(* parameter the hook does not call applyThemePreset.  Stated of the page  *)
(* once its effects have run.                                              *)
C26_DeepLinkAppliedOnce ==
  ~effectPending =>
    /\ (loadedParam # <<>> /\ loadedParam[1] # "") =>
         hookCalls = loadedParam /\ themeParam = <<>>
    /\ loadedParam = <<>> => hookCalls = <<>>

(***************************************************************************)
(* The reset button of the action bar                                      *)
(***************************************************************************)
(* EditorStore.hasCurrentPresetChanged: the value it returns, or that it   *)
(* throws with getPresetThemeStyles.                                       *)
hasCurrentPresetChanged ==
  LET presetStyles == getPresetThemeStyles(presetOrDefault(themeState)) IN
  IF presetStyles.threw THEN Thrown
  ELSE Returned(themeState.styles # presetStyles.value)

(* C27: hasCurrentPresetChanged() returns false immediately after          *)
(* applyThemePreset(n) for any name n, names absent from the catalog       *)
(* included, immediately after resetToCurrentPreset() and immediately      *)
(* after resetToDefault().                                                 *)
C27_UnchangedAfterPresetOperations ==
  last.op \in {"applyThemePreset", "resetToCurrentPreset", "resetToDefault"} =>
    hasCurrentPresetChanged = Returned(FALSE)

(***************************************************************************)
(* The toast store                                                         *)
(***************************************************************************)
TOAST_LIMIT == 1

(* Toasts made in a run. *)
MaxToasts == 4

Titles == {"Saved", "Copied"}

(* addToRemoveQueue without the has() test. *)
addToRemoveQueue_NoHasTest(queue, toastId) ==
  <<queue[1] \cup {toastId}, Append(queue[2], toastId)>>

(* toastTimeouts.has(toastId) ? nothing : a timer and its Map entry; what  *)
(* addToRemoveQueue leaves of <<toastTimeouts, timers>>.                   *)
addToRemoveQueue(queue, toastId) ==
  IF toastId \in queue[1] THEN queue
  ELSE <<queue[1] \cup {toastId}, Append(queue[2], toastId)>>

RECURSIVE addAllToRemoveQueue(_, _)
addAllToRemoveQueue(queue, toasts) ==
  IF toasts = <<>> THEN queue
  ELSE addAllToRemoveQueue(addToRemoveQueue(queue, Head(toasts).id), Tail(toasts))

(* An action's toastId or toast: <<>> stands for undefined. *)
AddToast(toast) == [type |-> "ADD_TOAST", toast |-> toast]
UpdateToast(toast) == [type |-> "UPDATE_TOAST", toast |-> toast]
DismissToast(toastId) == [type |-> "DISMISS_TOAST", toastId |-> toastId]
RemoveToast(toastId) == [type |-> "REMOVE_TOAST", toastId |-> toastId]

(* [toast, ...state.toasts].slice(0, TOAST_LIMIT) *)
Slice(toasts, limit) ==
  SubSeq(toasts, 1, IF Len(toasts) < limit THEN Len(toasts) ELSE limit)

(* reducer that appends the new toast and keeps the oldest ones. *)
reducer_KeepsOldest(state, action) ==
  CASE action.type = "ADD_TOAST" ->
         [state EXCEPT !.toasts = Slice(state.toasts \o <<action.toast>>, TOAST_LIMIT)]
    [] action.type = "UPDATE_TOAST" ->
         [state EXCEPT !.toasts =
            [i \in DOMAIN state.toasts |->
               IF state.toasts[i].id = action.toast.id
                 THEN Spread(state.toasts[i], action.toast)
                 ELSE state.toasts[i]]]
    [] action.type = "DISMISS_TOAST" ->
         [state EXCEPT !.toasts =
            [i \in DOMAIN state.toasts |->
               IF <<state.toasts[i].id>> = action.toastId \/ action.toastId = <<>>
                 THEN [state.toasts[i] EXCEPT !.open = FALSE]
                 ELSE state.toasts[i]]]
    [] action.type = "REMOVE_TOAST" ->
         IF action.toastId = <<>> THEN [state EXCEPT !.toasts = <<>>]
         ELSE [state EXCEPT !.toasts =
                 SelectSeq(state.toasts, LAMBDA t : <<t.id>> # action.toastId)]

(* reducer: the state it returns.  What DISMISS_TOAST does to the timers   *)
(* is in dispatch.                                                         *)
reducer(state, action) ==
  CASE action.type = "ADD_TOAST" ->
         [state EXCEPT !.toasts = Slice(<<action.toast>> \o state.toasts, TOAST_LIMIT)]
    [] action.type = "UPDATE_TOAST" ->
         [state EXCEPT !.toasts =
            [i \in DOMAIN state.toasts |->
               IF state.toasts[i].id = action.toast.id
                 THEN Spread(state.toasts[i], action.toast)
                 ELSE state.toasts[i]]]
    [] action.type = "DISMISS_TOAST" ->
         [state EXCEPT !.toasts =
            [i \in DOMAIN state.toasts |->
               IF <<state.toasts[i].id>> = action.toastId \/ action.toastId = <<>>
                 THEN [state.toasts[i] EXCEPT !.open = FALSE]
                 ELSE state.toasts[i]]]
    [] action.type = "REMOVE_TOAST" ->
         IF action.toastId = <<>> THEN [state EXCEPT !.toasts = <<>>]
         ELSE [state EXCEPT !.toasts =
                 SelectSeq(state.toasts, LAMBDA t : <<t.id>> # action.toastId)]

(* dispatch: memoryState = reducer(memoryState, action), with the side     *)
(* effect of the reducer's DISMISS_TOAST case on the timers.               *)
dispatch(action) ==
  /\ memoryState' = reducer(memoryState, action)
  /\ IF action.type = "DISMISS_TOAST"
       THEN \E queue \in
              {IF action.toastId # <<>>
                 THEN addToRemoveQueue(<<toastTimeouts, timers>>, action.toastId[1])
                 ELSE addAllToRemoveQueue(<<toastTimeouts, timers>>,
                                          memoryState.toasts)} :
              toastTimeouts' = queue[1] /\ timers' = queue[2]
       ELSE UNCHANGED <<toastTimeouts, timers>>

ToastInit ==
  /\ themeState = defaultThemeState(FALSE)
  /\ hasChangedThemeFromDefault = FALSE
  /\ last = [op |-> "init"]
  /\ nEdits = 0
  /\ UrlIdle
  /\ ToastIdle
  /\ DebounceIdle

(* toast(props): genId, then ADD_TOAST.  genId adds one to count modulo    *)
(* Number.MAX_SAFE_INTEGER, which MaxToasts keeps out of reach; the id is  *)
(* the decimal text of count and is held here as the number.               *)
toast(title) ==
  /\ count < MaxToasts
  /\ count' = count + 1
  /\ dispatch(AddToast([id |-> count', open |-> TRUE, title |-> title]))
  /\ UNCHANGED <<storeVars, urlVars, debounceVars>>

(* The update of the object a toast() call returned. *)
update(id, title) ==
  /\ dispatch(UpdateToast([id |-> id, title |-> title]))
  /\ UNCHANGED <<count, storeVars, urlVars, debounceVars>>

(* dismiss of a toast() call, onOpenChange(false), and dismiss(toastId)    *)
(* of useToast, with or without an id.                                     *)
dismiss(toastId) ==
  /\ dispatch(DismissToast(toastId))
  /\ UNCHANGED <<count, storeVars, urlVars, debounceVars>>

(* The callback of the oldest timer: TOAST_REMOVE_DELAY is the same for    *)
(* all of them.  toastTimeouts.delete(toastId), then REMOVE_TOAST.         *)
removeTimeout ==
  /\ timers # <<>>
  /\ memoryState' = reducer(memoryState, RemoveToast(<<Head(timers)>>))
  /\ toastTimeouts' = toastTimeouts \ {Head(timers)}
  /\ timers' = Tail(timers)
  /\ UNCHANGED <<count, storeVars, urlVars, debounceVars>>

ToastNext ==
  \/ \E title \in Titles : toast(title)
  \/ \E id \in 1..count, title \in Titles : update(id, title)
  \/ \E id \in 1..count : dismiss(<<id>>)
  \/ dismiss(<<>>)
  \/ removeTimeout

ToastSpec == ToastInit /\ [][ToastNext]_vars

(***************************************************************************)
(* Properties of the toast store                                           *)
(***************************************************************************)
(* C28: after any sequence of ADD_TOAST, UPDATE_TOAST, DISMISS_TOAST and   *)
(* REMOVE_TOAST actions the state holds at most TOAST_LIMIT (1) toasts,    *)
(* and right after ADD_TOAST the toast held is the newly added one: older  *)
(* toasts are dropped.                                                     *)
C28_AtMostLimitNewestKept ==
  /\ [](Len(memoryState.toasts) <= TOAST_LIMIT)
  /\ [][\A title \in Titles : toast(title) =>
          memoryState'.toasts
            = <<[id |-> count + 1, open |-> TRUE, title |-> title]>>]_vars

(* A second toast has replaced the first. *)
C28_Witness ==
  /\ count = 2
  /\ Len(memoryState.toasts) = 1
  /\ memoryState.toasts[1].id = 2
  /\ memoryState.toasts[1].open


(* The toasts a DISMISS_TOAST with this toastId is aimed at. *)
isTargeted(t, toastId) == <<t.id>> = toastId \/ toastId = <<>>

(* How many timers wait for this id. *)
pendingTimers(toastId) ==
  Cardinality({i \in DOMAIN timers : timers[i] = toastId})

(* C29: DISMISS_TOAST marks the targeted toast (every toast when no id is  *)
(* given) open=false without removing it and schedules its removal; each   *)
(* toast id has at most one pending removal timer however many times it is *)
(* dismissed; and when that timer fires, the timer entry is deleted and    *)
(* the toast with that id is removed from the state.                       *)
C29_DismissThenRemove ==
  /\ [][\A toastId \in {<<>>} \cup {<<id>> : id \in 1..MaxToasts} :
          dismiss(toastId) =>
            /\ DOMAIN memoryState'.toasts = DOMAIN memoryState.toasts
            /\ \A i \in DOMAIN memoryState.toasts :
                 IF isTargeted(memoryState.toasts[i], toastId)
                   THEN /\ memoryState'.toasts[i]
                             = [memoryState.toasts[i] EXCEPT !.open = FALSE]
                        /\ memoryState.toasts[i].id \in toastTimeouts'
                   ELSE memoryState'.toasts[i] = memoryState.toasts[i]
            /\ toastId # <<>> => toastId[1] \in toastTimeouts'
            /\ toastTimeouts \subseteq toastTimeouts']_vars
  /\ [](\A id \in 1..MaxToasts :
          pendingTimers(id) = (IF id \in toastTimeouts THEN 1 ELSE 0))
  /\ [][removeTimeout =>
          /\ Head(timers) \notin toastTimeouts'
          /\ \A i \in DOMAIN timers' : timers'[i] # Head(timers)
          /\ memoryState'.toasts
               = SelectSeq(memoryState.toasts, LAMBDA t : t.id # Head(timers))
          /\ \A i \in DOMAIN memoryState'.toasts :
               memoryState'.toasts[i].id # Head(timers)]_vars

(* The second toast has been dismissed: it is still held, closed, and one *)
(* timer waits for it.                                                     *)
C29_Witness ==
  /\ count = 2
  /\ memoryState.toasts = <<[id |-> 2, open |-> FALSE, title |-> "Copied"]>>
  /\ toastTimeouts = {2}
  /\ timers = <<2>>


(***************************************************************************)
(* debounce(fn, delay)                                                     *)
(***************************************************************************)
(* The delay, in steps of the clock. *)
Delay == 2

(* The clock stops here, and so many calls and cancels are made. *)
MaxTime == 6

MaxCalls == 4

CallArgs == {"a", "b"}

(* clearTimeout that leaves the timer alone. *)
clearTimeout_Keeps(pending, id) ==
  pending

(* clearTimeout(id): the timer with this id, if it has not run, is dropped. *)
clearTimeout(pending, id) ==
  {timeout \in pending : <<timeout.id>> # id}

(* A timer that is due runs before anything else happens at that time. *)
dueTimeouts == {timeout \in timeouts : timeout.due <= now}

DebounceInit ==
  /\ themeState = defaultThemeState(FALSE)
  /\ hasChangedThemeFromDefault = FALSE
  /\ last = [op |-> "init"]
  /\ nEdits = 0
  /\ UrlIdle
  /\ ToastIdle
  /\ DebounceIdle

(* debounced(...args): clearTimeout(timeoutId), then a new timer.  The id  *)
(* of a timer is the number of the call that made it.                      *)
debounced(args) ==
  /\ Len(calls) < MaxCalls
  /\ dueTimeouts = {}
  /\ timeouts' = clearTimeout(timeouts, timeoutId)
                   \cup {[id |-> Len(calls) + 1, due |-> now + Delay, args |-> args]}
  /\ timeoutId' = <<Len(calls) + 1>>
  /\ calls' = Append(calls, [type |-> "call", at |-> now, args |-> args])
  /\ UNCHANGED <<now, invocations, storeVars, urlVars, toastVars>>

(* debounced.cancel() *)
cancel ==
  /\ Len(calls) < MaxCalls
  /\ dueTimeouts = {}
  /\ timeouts' = clearTimeout(timeouts, timeoutId)
  /\ calls' = Append(calls, [type |-> "cancel", at |-> now, args |-> ""])
  /\ UNCHANGED <<timeoutId, now, invocations, storeVars, urlVars, toastVars>>

(* The callback of a timer: fn.apply(this, args) *)
runTimeout ==
  \E timeout \in dueTimeouts :
    /\ \A other \in dueTimeouts : timeout.id <= other.id
    /\ timeouts' = timeouts \ {timeout}
    /\ invocations' = Append(invocations, [at |-> now, args |-> timeout.args])
    /\ UNCHANGED <<timeoutId, now, calls, storeVars, urlVars, toastVars>>

(* Time passes when no timer is due. *)
tick ==
  /\ now < MaxTime
  /\ dueTimeouts = {}
  /\ now' = now + 1
  /\ UNCHANGED <<timeoutId, timeouts, calls, invocations, storeVars, urlVars, toastVars>>

DebounceNext ==
  \/ \E args \in CallArgs : debounced(args)
  \/ cancel
  \/ runTimeout
  \/ tick

DebounceSpec == DebounceInit /\ [][DebounceNext]_vars

(***************************************************************************)
(* Properties of debounce                                                  *)
(***************************************************************************)
(* The call with this number is the last of its burst: nothing, call or    *)
(* cancel, follows it in less than the delay.                              *)
endsBurst(i) ==
  /\ calls[i].type = "call"
  /\ i < Len(calls) => calls[i + 1].at >= calls[i].at + Delay

(* The invocations due up to a time: one for each call that ends a burst,  *)
(* the delay after it and with its arguments.                              *)
RECURSIVE invocationsDue(_, _)
invocationsDue(i, time) ==
  IF i > Len(calls) THEN <<>>
  ELSE (IF endsBurst(i) /\ calls[i].at + Delay <= time
          THEN <<[at |-> calls[i].at + Delay, args |-> calls[i].args]>>
          ELSE <<>>)
       \o invocationsDue(i + 1, time)

(* C30: any burst of calls in which each call comes less than delay after  *)
(* the previous one results in exactly one invocation of fn, made delay    *)
(* after the last call and with the last call's arguments; cancel() while  *)
(* an invocation is pending prevents it, and a later call schedules a      *)
(* fresh one.  At every time the invocations made are those of the bursts  *)
(* that ended without a cancel, and a timer that is due at this very       *)
(* time has yet to add its own.                                            *)
C30_OneInvocationPerBurst ==
  /\ invocations = invocationsDue(1, IF dueTimeouts = {} THEN now ELSE now - 1)
  /\ Cardinality(timeouts) <= 1
  /\ \A timeout \in timeouts :
       /\ endsBurst(Len(calls))
       /\ timeout.due = calls[Len(calls)].at + Delay
       /\ timeout.args = calls[Len(calls)].args

(* A call was cancelled while its invocation was pending; the burst of    *)
(* two calls after it gave one invocation, with the second call's          *)
(* arguments, the delay after the second call.                             *)
C30_Witness ==
  /\ Len(calls) = 4
  /\ calls[1].type = "call"
  /\ calls[2].type = "cancel" /\ calls[2].at < calls[1].at + Delay
  /\ calls[3].type = "call" /\ calls[3].args = "a"
  /\ calls[4].type = "call" /\ calls[4].args = "b"
  /\ calls[4].at > calls[3].at
  /\ calls[4].at < calls[3].at + Delay
  /\ invocations = <<[at |-> calls[4].at + Delay, args |-> "b"]>>
=============================================================================
